---- MODULE Spec2Model ----
(***************************************************************************)
(* ThreeDTilesLayer: the MapLibre custom layer that streams 3D Tiles       *)
(* through 3d-tiles-renderer and draws them with three.js.                 *)
(*                                                                         *)
(* The module models one layer instance: its private fields, the host's    *)
(* interval timers, the streaming engines the layer has created, the       *)
(* shared GL context, and the handlers onAdd / render / onRemove, the      *)
(* repaint-timer callback and the engine event listeners.                  *)
(*                                                                         *)
(* The repository holds two iterations of the layer:                       *)
(*   "split"  : src/unnamed/part_002 (camera-relative split, no polygon    *)
(*              offset)                                                    *)
(*   "offset" : src/app/utils/threeDTilesLayer.ts (GL polygon offset)      *)
(* The variable `variant` says which one the instance runs.                *)
(***************************************************************************)
EXTENDS Integers, Sequences, FiniteSets, TLC

\* ---------------------------------------------------------------- bounds
MaxEngines == 2      \* engines (onAdd calls) one run may create
MaxTimers  == 2      \* interval handles the host can hand out
NumMaps    == 1      \* host map instances
MaxFbo     == 1      \* framebuffer objects besides the default (0 = null)
MaxWork    == 1      \* largest value of an engine work counter

\* ------------------------------------------------------------- constants
REPAINT_INTERVAL_MS   == 50
RESOLUTION_MULTIPLIER == 4

NoMap    == 0
NoEngine == 0
NoTimer  == 0
NoRenderer == [present |-> FALSE, autoClear |-> TRUE, autoClearColor |-> TRUE,
               autoClearDepth |-> TRUE, autoClearStencil |-> TRUE]

Maps      == 1..NumMaps
EngineIds == 1..MaxEngines
TimerIds  == 1..MaxTimers
Variants  == {"split", "offset"}

\* ------------------------------------------------------------- numbers
\* The code computes in floating point; the model computes the same
\* expressions over exact rationals [n, d] (d > 0, lowest terms).
\* Lengths are in units of 100 km so that the magnitudes stay small:
\* and kept to two significant digits:
\*   EARTH_CIRCUMFERENCE 40 075 016.686 m -> 400
\*   WGS84_A              6 378 137.0   m -> 64
\*   WGS84_E2             0.00669438       -> 1/150
MaxZoom   == 1      \* host zoom levels 0..MaxZoom
MaxOffset == 1      \* altitude offsets 0..MaxOffset (units of 100 m)
MaxGeomError == 2   \* tile geometric errors 0..MaxGeomError (units of 1 m)
MaxObjects == 2     \* objects in the scene of a loaded tile

RECURSIVE GCD(_, _)
GCD(a, b) == IF b = 0 THEN a ELSE GCD(b, a % b)

Abs(i) == IF i < 0 THEN -i ELSE i

Rat(n, d) ==
    LET g == GCD(Abs(n), Abs(d))
        s == IF d < 0 THEN -1 ELSE 1
    IN [n |-> (s * n) \div g, d |-> (s * d) \div g]

RI(i) == [n |-> i, d |-> 1]

RAdd(a, b) ==
    LET g == GCD(a.d, b.d)
    IN Rat(a.n * (b.d \div g) + b.n * (a.d \div g), (a.d \div g) * b.d)

RNeg(a) == [n |-> -a.n, d |-> a.d]

RSub(a, b) == RAdd(a, RNeg(b))

RMul(a, b) ==
    LET g1 == GCD(Abs(a.n), b.d)
        g2 == GCD(Abs(b.n), a.d)
    IN Rat((a.n \div g1) * (b.n \div g2), (a.d \div g2) * (b.d \div g1))

RDiv(a, b) == RMul(a, Rat(b.d, b.n))

RGt(a, b) == a.n * b.d > b.n * a.d

RLe(a, b) == ~RGt(a, b)

Metres(m) == Rat(m, 100000)

SELECTION_HEIGHT_M == 500
SELECTION_FOV_DEG  == 90

EARTH_CIRCUMFERENCE == RI(400)
WGS84_A             == RI(64)
WGS84_E2            == Rat(1, 150)

\* Math.sin / Math.cos at the angles the model uses, in fifths: the
\* angles whose sine and cosine are both rational with denominator 5,
\* named by their degrees (37 stands for atan(3/4), 53 for atan(4/3)).
TrigTable ==
    [a \in {-143, -127, -90, -53, -37, 0, 37, 53, 90, 127, 143, 180} |->
        CASE a = 0    -> [s |->  0, c |->  5]
          [] a = 37   -> [s |->  3, c |->  4]
          [] a = 53   -> [s |->  4, c |->  3]
          [] a = 90   -> [s |->  5, c |->  0]
          [] a = 127  -> [s |->  4, c |-> -3]
          [] a = 143  -> [s |->  3, c |-> -4]
          [] a = 180  -> [s |->  0, c |-> -5]
          [] a = -37  -> [s |-> -3, c |->  4]
          [] a = -53  -> [s |-> -4, c |->  3]
          [] a = -90  -> [s |-> -5, c |->  0]
          [] a = -127 -> [s |-> -4, c |-> -3]
          [] a = -143 -> [s |-> -3, c |-> -4]]

Sin(deg) == Rat(TrigTable[deg].s, 5)
Cos(deg) == Rat(TrigTable[deg].c, 5)

Longitudes == {-127, -37, 0, 53, 90, 143}
Latitudes  == {-53, -37, 0, 37, 53}

\* (lng + 180) / 360
MercatorX(lng) == Rat(lng + 180, 360)

\* (1 - ln(tan(pi/4 + lat*pi/360)) / pi) / 2, in hundredths
\* (tan is 1/3, 1/2, 1, 2, 3 at the model's latitudes).
MercatorY(lat) ==
    CASE lat = 0   -> Rat(50, 100)
      [] lat = 37  -> Rat(39, 100)
      [] lat = 53  -> Rat(33, 100)
      [] lat = -37 -> Rat(61, 100)
      [] lat = -53 -> Rat(67, 100)

\* N = WGS84_A / sqrt(1 - WGS84_E2 * sin^2): 63.78 at the equator, 63.86
\* and 63.92 at the model's other latitudes; 64 to two significant digits.
PrimeVerticalRadius(lat) == WGS84_A

\* lngLatToECEF(lng, lat, alt)
LngLatToECEF(lng, lat, alt) ==
    LET N == PrimeVerticalRadius(lat)
    IN <<RMul(RMul(RAdd(N, alt), Cos(lat)), Cos(lng)),
         RMul(RMul(RAdd(N, alt), Cos(lat)), Sin(lng)),
         RMul(RAdd(RMul(N, RSub(RI(1), WGS84_E2)), alt), Sin(lat))>>

\* ------------------------------------------------------------ matrices
\* A THREE.Matrix4, written row by row as Matrix4.set takes it.
Dot3(a, b) == RAdd(RAdd(RMul(a[1], b[1]), RMul(a[2], b[2])), RMul(a[3], b[3]))

Identity4 ==
    <<<<RI(1), RI(0), RI(0), RI(0)>>, <<RI(0), RI(1), RI(0), RI(0)>>,
      <<RI(0), RI(0), RI(1), RI(0)>>, <<RI(0), RI(0), RI(0), RI(1)>>>>

\* Matrix4.multiplyMatrices(a, b)
MultiplyMatrices(a, b) ==
    LET e(i, j) == RAdd(RAdd(RMul(a[i][1], b[1][j]), RMul(a[i][2], b[2][j])),
                        RAdd(RMul(a[i][3], b[3][j]), RMul(a[i][4], b[4][j])))
        row(i) == <<e(i, 1), e(i, 2), e(i, 3), e(i, 4)>>
    IN <<row(1), row(2), row(3), row(4)>>

\* Matrix4.makeTranslation(x, y, z)
MakeTranslation(x, y, z) ==
    <<<<RI(1), RI(0), RI(0), x>>, <<RI(0), RI(1), RI(0), y>>,
      <<RI(0), RI(0), RI(1), z>>, <<RI(0), RI(0), RI(0), RI(1)>>>>

\* The matrix applied to the point (x, y, z, 1), divided by w.
ApplyToPoint(m, p) ==
    LET row(i) == RAdd(RAdd(RMul(m[i][1], p[1]), RMul(m[i][2], p[2])),
                       RAdd(RMul(m[i][3], p[3]), m[i][4]))
    IN <<RDiv(row(1), row(4)), RDiv(row(2), row(4)), RDiv(row(3), row(4))>>

\* ------------------------------------------- buildEcefToMercatorMatrix
\* The vertical scale of the builder: the camera-relative iteration
\* writes the Z row in metres (scale 1), the polygon-offset iteration
\* multiplies it by sV = worldSize / EARTH_CIRCUMFERENCE.
VerticalScale(v, worldSize) ==
    IF v = "offset" THEN RDiv(worldSize, EARTH_CIRCUMFERENCE) ELSE RI(1)

\* buildEcefToMercatorMatrix(lng0, lat0, altitudeOffset, worldSize) of
\* iteration v.
BuildEcefToMercatorMatrix(v, lng0, lat0, altitudeOffset, worldSize) ==
    LET sinL == Sin(lng0)
        cosL == Cos(lng0)
        sinP == Sin(lat0)
        cosP == Cos(lat0)
        E  == <<RNeg(sinL), cosL, RI(0)>>
        N  == <<RNeg(RMul(sinP, cosL)), RNeg(RMul(sinP, sinL)), cosP>>
        U  == <<RMul(cosP, cosL), RMul(cosP, sinL), sinP>>
        sH == RDiv(worldSize, RMul(EARTH_CIRCUMFERENCE, cosP))
        sV == VerticalScale(v, worldSize)
        C  == LngLatToECEF(lng0, lat0, RI(0))
        mx0 == MercatorX(lng0)
        my0 == MercatorY(lat0)
        tx == RSub(RMul(mx0, worldSize), RMul(sH, Dot3(E, C)))
        ty == RAdd(RMul(my0, worldSize), RMul(sH, Dot3(N, C)))
        tz == RAdd(RNeg(RMul(sV, Dot3(U, C))), RMul(altitudeOffset, sV))
    IN <<<<RMul(sH, E[1]), RMul(sH, E[2]), RMul(sH, E[3]), tx>>,
         <<RNeg(RMul(sH, N[1])), RNeg(RMul(sH, N[2])), RNeg(RMul(sH, N[3])), ty>>,
         <<RMul(sV, U[1]), RMul(sV, U[2]), RMul(sV, U[3]), tz>>,
         <<RI(0), RI(0), RI(0), RI(1)>>>>

\* buildEcefToMercatorMatrix of the transform test: its own copy of the
\* builder, with the Z row and the Z translation in metres.
TestBuildEcefToMercatorMatrix(lng0, lat0, altitudeOffset, worldSize) ==
    LET sinL == Sin(lng0)
        cosL == Cos(lng0)
        sinP == Sin(lat0)
        cosP == Cos(lat0)
        E  == <<RNeg(sinL), cosL, RI(0)>>
        N  == <<RNeg(RMul(sinP, cosL)), RNeg(RMul(sinP, sinL)), cosP>>
        U  == <<RMul(cosP, cosL), RMul(cosP, sinL), sinP>>
        sH == RDiv(worldSize, RMul(EARTH_CIRCUMFERENCE, cosP))
        C  == LngLatToECEF(lng0, lat0, RI(0))
        mx0 == MercatorX(lng0)
        my0 == MercatorY(lat0)
        tx == RSub(RMul(mx0, worldSize), RMul(sH, Dot3(E, C)))
        ty == RAdd(RMul(my0, worldSize), RMul(sH, Dot3(N, C)))
        tz == RAdd(RNeg(Dot3(U, C)), altitudeOffset)
    IN <<<<RMul(sH, E[1]), RMul(sH, E[2]), RMul(sH, E[3]), tx>>,
         <<RNeg(RMul(sH, N[1])), RNeg(RMul(sH, N[2])), RNeg(RMul(sH, N[3])), ty>>,
         <<U[1], U[2], U[3], tz>>,
         <<RI(0), RI(0), RI(0), RI(1)>>>>

\* buildEcefToMercatorDiag of the diagnostics: a third copy, the rows
\* as THREE.Matrix4.set takes them.
BuildEcefToMercatorDiag(lng0, lat0, altitudeOffset, worldSize) ==
    LET sinL == Sin(lng0)
        cosL == Cos(lng0)
        sinP == Sin(lat0)
        cosP == Cos(lat0)
        Ex == RNeg(sinL)
        Ey == cosL
        Ez == RI(0)
        Nx == RNeg(RMul(sinP, cosL))
        Ny == RNeg(RMul(sinP, sinL))
        Nz == cosP
        Ux == RMul(cosP, cosL)
        Uy == RMul(cosP, sinL)
        Uz == sinP
        sH == RDiv(worldSize, RMul(EARTH_CIRCUMFERENCE, cosP))
        C  == LngLatToECEF(lng0, lat0, RI(0))
        mx0 == MercatorX(lng0)
        my0 == MercatorY(lat0)
        tx == RSub(RMul(mx0, worldSize),
                   RMul(sH, Dot3(<<Ex, Ey, Ez>>, C)))
        ty == RAdd(RMul(my0, worldSize),
                   RMul(sH, Dot3(<<Nx, Ny, Nz>>, C)))
        tz == RAdd(RNeg(Dot3(<<Ux, Uy, Uz>>, C)), altitudeOffset)
    IN <<<<RMul(sH, Ex), RMul(sH, Ey), RMul(sH, Ez), tx>>,
         <<RNeg(RMul(sH, Nx)), RNeg(RMul(sH, Ny)), RNeg(RMul(sH, Nz)), ty>>,
         <<Ux, Uy, Uz, tz>>,
         <<RI(0), RI(0), RI(0), RI(1)>>>>

\* 512 * Math.pow(2, zoom)
RECURSIVE Pow2(_)
Pow2(k) == IF k = 0 THEN 1 ELSE 2 * Pow2(k - 1)

ZoomWorldSize(zoom) == RI(512 * Pow2(zoom))

VARIABLES
    variant,        \* which iteration of the layer this instance is
    map,            \* this.map
    renderer,       \* this.renderer (with its autoClear flags)
    scene,          \* this.scene present
    lodCamera,      \* this.lodCamera present
    renderCamera,   \* this.renderCamera present
    tilesRenderer,  \* this.tilesRenderer (engine id or NoEngine)
    dracoLoader,    \* this.dracoLoader (id of the onAdd that made it)
    repaintTimer,   \* this.repaintTimer (interval handle or NoTimer)
    activeTimers,   \* host: interval handles set and not yet cleared
    engines,        \* every engine made so far: state, its Draco loader,
                    \* and the map its kick listener closed over
    nextEngine,     \* id of the next engine to be constructed
    work,           \* what the current engine reports about its queues
    gl,             \* the GL context shared with the host
    frames,         \* parity of the number of render calls so far
    last,           \* the handler that ran last and how it ended
    calls,          \* the calls that handler made on its collaborators
    config,         \* this.lng0, this.lat0, this.altitudeOffset
    host,           \* the host map's view: zoom, centre, projection
    lodPose,        \* position, target and field of view of this.lodCamera
    canvas,         \* the host canvas: its drawing-buffer width and height
    calc            \* a computation taken on its own (the transform, the
                    \* engine's tile selection): its inputs and results

layerRefs == <<map, renderer, scene, lodCamera, renderCamera,
               tilesRenderer, dracoLoader>>
\* What only the host or a transform computation changes.
viewState == <<config, host, calc, canvas>>

layerState == <<map, renderer, scene, lodCamera, renderCamera,
                tilesRenderer, dracoLoader, repaintTimer>>
vars == <<variant, map, renderer, scene, lodCamera, renderCamera,
          tilesRenderer, dracoLoader, repaintTimer, activeTimers,
          engines, nextEngine, work, gl, frames, last, calls,
          config, host, lodPose, calc, canvas>>

\* ------------------------------------------------------- collaborators
Call(t, id, fn, arg) == [t |-> t, id |-> id, fn |-> fn, arg |-> arg]

IdleWork == [hasStats |-> TRUE, downloading |-> 0, parsing |-> 0,
             queued |-> 0, dqRunning |-> FALSE, pqRunning |-> FALSE,
             hasFade |-> TRUE, fadingTiles |-> 0]

\* The reports an engine can give: nothing outstanding, one kind of work
\* outstanding, or counters present on an engine without stats / without
\* the fade plugin.
WorkStates ==
    {IdleWork}
    \cup {[IdleWork EXCEPT !.downloading = n] : n \in 1..MaxWork}
    \cup {[IdleWork EXCEPT !.parsing = n] : n \in 1..MaxWork}
    \cup {[IdleWork EXCEPT !.queued = n] : n \in 1..MaxWork}
    \cup {[IdleWork EXCEPT !.fadingTiles = n] : n \in 1..MaxWork}
    \cup {[IdleWork EXCEPT !.dqRunning = TRUE],
          [IdleWork EXCEPT !.pqRunning = TRUE],
          [IdleWork EXCEPT !.hasStats = FALSE, !.downloading = MaxWork],
          [IdleWork EXCEPT !.hasFade = FALSE, !.fadingTiles = MaxWork]}

GLDefault == [fbo |-> 0, depthTest |-> FALSE, depthFunc |-> "LESS",
              depthMask |-> TRUE, polygonOffsetFill |-> FALSE]

GLStates == [fbo : 0..MaxFbo, depthTest : BOOLEAN,
             depthFunc : {"LESS", "LEQUAL"}, depthMask : BOOLEAN,
             polygonOffsetFill : BOOLEAN]

\* No resolution registered with an engine yet.
NoResolution == <<>>

NoEngineRec ==
    [state |-> "none", draco |-> "none", kickMap |-> NoMap, listeners |-> <<>>,
     resolution |-> NoResolution]

\* Canvas sizes the host may have: a window, the same window resized,
\* and a canvas not laid out yet.
DefaultCanvas == [width |-> 800, height |-> 600]

Canvases == {DefaultCanvas, [width |-> 1920, height |-> 1080],
             [width |-> 0, height |-> 0]}

\* A resolution that is registered once and kept: later calls leave the
\* engine's value alone.
SetResolutionOnce(en, e, c) ==
    IF en[e].resolution # NoResolution THEN en
    ELSE [en EXCEPT ![e].resolution = <<c.width * RESOLUTION_MULTIPLIER,
                                        c.height * RESOLUTION_MULTIPLIER>>]

\* tilesRenderer.setResolution(lodCamera, canvas.width *
\* RESOLUTION_MULTIPLIER, canvas.height * RESOLUTION_MULTIPLIER)
SetResolution(en, e, c) ==
    [en EXCEPT ![e].resolution = <<c.width * RESOLUTION_MULTIPLIER,
                                   c.height * RESOLUTION_MULTIPLIER>>]

\* The load-model listeners with the cross-fade plugin registered ahead
\* of the post-processing listener.
LoadModelListenersFadeFirst == <<"fade", "postProcess", "kick", "stats">>

\* The load-model listeners of an engine in the order onAdd registers
\* them: the post-processing listener, the cross-fade plugin (it
\* subscribes when it is registered), kick, the progress log.
LoadModelListeners == <<"postProcess", "fade", "kick", "stats">>

\* ----------------------------------------------------------- helpers
\* hasActiveWork(): tr is this.tilesRenderer, w the engine's report.
HasActiveWork(tr, w) ==
    IF tr = NoEngine THEN FALSE
    ELSE IF w.hasStats /\ (w.downloading > 0 \/ w.parsing > 0 \/ w.queued > 0)
         THEN TRUE
    ELSE IF w.dqRunning \/ w.pqRunning THEN TRUE
    ELSE IF w.hasFade /\ w.fadingTiles > 0 THEN TRUE
    ELSE FALSE

FreeHandle(act) ==
    CHOOSE h \in TimerIds \ act : \A k \in TimerIds \ act : h <= k

\* startRepaintLoop() without the timer-handle check.
StartRepaintLoopNoHandleCheck(rt, m, act) ==
    IF m = NoMap \/ TimerIds \ act = {}
    THEN [rt |-> rt, act |-> act, calls |-> <<>>]
    ELSE [rt |-> FreeHandle(act), act |-> act \cup {FreeHandle(act)},
          calls |-> <<Call("host", FreeHandle(act), "setInterval", "tick")>>]

\* startRepaintLoop() without the check for the map.
StartRepaintLoopNoMapCheck(rt, m, act) ==
    IF rt # NoTimer \/ TimerIds \ act = {}
    THEN [rt |-> rt, act |-> act, calls |-> <<>>]
    ELSE [rt |-> FreeHandle(act), act |-> act \cup {FreeHandle(act)},
          calls |-> <<Call("host", FreeHandle(act), "setInterval", "tick")>>]

\* startRepaintLoop(): rt is this.repaintTimer, m is this.map, act the
\* host's active handles.  Yields the new field, the new handle set and
\* the host calls made.
StartRepaintLoop(rt, m, act) ==
    IF rt # NoTimer \/ m = NoMap \/ TimerIds \ act = {}
    THEN [rt |-> rt, act |-> act, calls |-> <<>>]
    ELSE [rt |-> FreeHandle(act), act |-> act \cup {FreeHandle(act)},
          calls |-> <<Call("host", FreeHandle(act), "setInterval", "tick")>>]

\* stopRepaintLoop() that forgets the handle without clearing the
\* interval.
StopRepaintLoopKeepsInterval(rt, act) ==
    [rt |-> NoTimer, act |-> act, calls |-> <<>>]

\* stopRepaintLoop().
StopRepaintLoop(rt, act) ==
    IF rt # NoTimer
    THEN [rt |-> NoTimer, act |-> act \ {rt},
          calls |-> <<Call("host", rt, "clearInterval", "tick")>>]
    ELSE [rt |-> rt, act |-> act, calls |-> <<>>]

\* What is remembered of the handler that ran last: which one, how it
\* went (for render: "guard" = returned at the null guard, "update" /
\* "draw" = that collaborator threw and render passed the exception on,
\* "ok" = ran to its end), and what its liveness check found.
LastRec(op, arg, hadWork) == [op |-> op, arg |-> arg, hadWork |-> hadWork]

\* ------------------------------------------------------ view and cameras
\* The constructor's anchor and altitude offset.
DefaultConfig == [lng0 |-> 53, lat0 |-> -37, altitudeOffset |-> RI(0)]

AltitudeOffsets == {Metres(100 * k) : k \in 0..MaxOffset}

Configs == [lng0 : {53, 143}, lat0 : {-37}, altitudeOffset : AltitudeOffsets]

IntMatrix(r) ==
    <<<<RI(r[1][1]), RI(r[1][2]), RI(r[1][3]), RI(r[1][4])>>,
      <<RI(r[2][1]), RI(r[2][2]), RI(r[2][3]), RI(r[2][4])>>,
      <<RI(r[3][1]), RI(r[3][2]), RI(r[3][3]), RI(r[3][4])>>,
      <<RI(r[4][1]), RI(r[4][2]), RI(r[4][3]), RI(r[4][4])>>>>

\* The host's camera attitudes: looking straight down, or pitched and
\* rotated.
Attitudes == {"topDown", "pitched"}

\* options.modelViewProjectionMatrix: the host's combined projection
\* for its current attitude.
ModelViewProjection(h) ==
    IF h.attitude = "topDown"
    THEN IntMatrix(<<<<2, 0, 0, -1>>, <<0, -2, 0, 1>>,
                     <<0, 0, 1, 3>>, <<0, 0, 1, 4>>>>)
    ELSE IntMatrix(<<<<1, 2, 0, -3>>, <<-2, 1, 1, 2>>,
                     <<0, 1, 2, 1>>, <<0, 1, 2, 3>>>>)

\* The host map's view.  transformWorldSize is map.transform.worldSize,
\* 0 when the transform exposes no such number.
Hosts ==
    UNION {{[zoom |-> z, lng |-> c[1], lat |-> c[2], attitude |-> p,
             transformWorldSize |-> w] :
               c \in {<<53, -37>>, <<90, 0>>}, p \in Attitudes,
               w \in {0, 512 * Pow2(z)}} : z \in 0..MaxZoom}

DefaultHost ==
    [zoom |-> 0, lng |-> 53, lat |-> -37, attitude |-> "topDown",
     transformWorldSize |-> 0]

\* render's worldSize with the first frame's zoom kept.
WorldSizeOfFirstZoom(h) == ZoomWorldSize(0)

\* render's worldSize: 512 * 2^zoom, or transform.worldSize when the
\* host exposes it (the host keeps it at 512 * 2^zoom).
WorldSize(h) ==
    IF h.transformWorldSize # 0 THEN RI(h.transformWorldSize)
    ELSE ZoomWorldSize(h.zoom)

\* A camera pose: the geodetic point (lng, lat, metres) whose ECEF
\* position it stands at, the one it looks at, and its vertical field of
\* view.
NoPose == [position |-> <<>>, target |-> <<>>, fov |-> 0]

\* The LOD camera onAdd makes: SELECTION_HEIGHT_M above the anchor,
\* looking at the anchor, SELECTION_FOV_DEG wide.
LodPose(cfg) ==
    [position |-> <<cfg.lng0, cfg.lat0, SELECTION_HEIGHT_M>>,
     target   |-> <<cfg.lng0, cfg.lat0, 0>>,
     fov      |-> SELECTION_FOV_DEG]

\* A render that moves the LOD camera above the map centre.
LodPoseFollowsMap(pose, h) ==
    [pose EXCEPT !.position = <<h.lng, h.lat, SELECTION_HEIGHT_M>>]

\* What render does to the LOD camera: it hands it to setResolution and
\* leaves position and orientation as onAdd set them.
LodPoseAfterRender(pose, h) == pose

\* Camera centre in worldSize-scaled Mercator coordinates.
CamMerc(h) ==
    <<RMul(MercatorX(h.lng), WorldSize(h)), RMul(MercatorY(h.lat), WorldSize(h))>>

\* ecefToMercRel with only the X translation made camera-relative.
RelativeModelXOnly(mat, cx, cy) == [mat EXCEPT ![1][4] = RSub(@, cx)]

\* ecefToMercRel: the transform with its translation made
\* camera-relative.
RelativeModel(mat, cx, cy) ==
    [mat EXCEPT ![1][4] = RSub(@, cx), ![2][4] = RSub(@, cy)]

\* adjustedMVP: the host projection with the camera position re-added.
AdjustedProjection(p, cx, cy) ==
    MultiplyMatrices(p, MakeTranslation(cx, cy, RI(0)))

\* Step 2 of render: the matrices it writes into the render camera.
\* "split" writes adjustedMVP and ecefToMercRel; "offset" writes the
\* combined matrix and leaves matrixWorldInverse the identity of onAdd.
BuildRenderCamera(v, cfg, h) ==
    LET ecefToMerc == BuildEcefToMercatorMatrix(v, cfg.lng0, cfg.lat0,
                                                cfg.altitudeOffset, WorldSize(h))
    IN IF v = "split"
       THEN [projectionMatrix |->
                AdjustedProjection(ModelViewProjection(h), CamMerc(h)[1], CamMerc(h)[2]),
             matrixWorldInverse |->
                RelativeModel(ecefToMerc, CamMerc(h)[1], CamMerc(h)[2])]
       ELSE [projectionMatrix |-> MultiplyMatrices(ModelViewProjection(h), ecefToMerc),
             matrixWorldInverse |-> Identity4]

\* BuildRenderCamera for every iteration, anchor and host view of the
\* model, computed once.
RenderCameraRows ==
    {[v |-> v, cfg |-> cfg, h |-> h, camera |-> BuildRenderCamera(v, cfg, h)] :
        v \in Variants, cfg \in Configs, h \in Hosts}

RenderCamera(v, cfg, h) ==
    (CHOOSE row \in RenderCameraRows :
        row.v = v /\ row.cfg = cfg /\ row.h = h).camera

NoCalc == [phase |-> "none"]

\* ---------------------------------------------------------------- Init
InitOver(G, Cfgs, Hs, Calcs) ==
    /\ variant \in Variants
    /\ config \in Cfgs
    /\ host \in Hs
    /\ lodPose = NoPose
    /\ calc \in Calcs
    /\ canvas = DefaultCanvas
    /\ map = NoMap
    /\ renderer = NoRenderer
    /\ scene = FALSE
    /\ lodCamera = FALSE
    /\ renderCamera = FALSE
    /\ tilesRenderer = NoEngine
    /\ dracoLoader = NoEngine
    /\ repaintTimer = NoTimer
    /\ activeTimers = {}
    /\ engines = [e \in EngineIds |-> NoEngineRec]
    /\ nextEngine = 1
    /\ work = IdleWork
    /\ gl \in G
    /\ frames = 0
    /\ last = LastRec("new", "", FALSE)
    /\ calls = <<>>

InitWith(G, Cfgs, Hs) == InitOver(G, Cfgs, Hs, {NoCalc})

Init == InitWith({GLDefault}, {DefaultConfig}, {DefaultHost})

\* --------------------------------------------------------------- onAdd
\* The renderer three.js makes in onAdd, after the four autoClear
\* assignments.
NewRenderer ==
    [present |-> TRUE, autoClear |-> FALSE, autoClearColor |-> FALSE,
     autoClearDepth |-> FALSE, autoClearStencil |-> FALSE]

\* onAdd(map, gl).  fail says whether a constructor throws on the way:
\* "renderer" = new THREE.WebGLRenderer, "engine" = new TilesRenderer;
\* the assignments made before the throw stay.
OnAddFails == {"none", "renderer", "engine"}

OnAdd(m, fail) ==
    /\ map' = m
    /\ CASE fail = "renderer" ->
              /\ calls' = <<Call("map", m, "getCanvas", "")>>
              /\ last' = LastRec("onAdd", "renderer", FALSE)
              /\ UNCHANGED <<lodPose, renderer, lodCamera, renderCamera, scene,
                             tilesRenderer, dracoLoader, engines, nextEngine,
                             work, repaintTimer, activeTimers>>
         [] fail = "engine" ->
              /\ renderer' = NewRenderer
              /\ lodCamera' = TRUE
              /\ renderCamera' = TRUE
              /\ scene' = TRUE
              /\ lodPose' = LodPose(config)
              /\ calls' = <<Call("map", m, "getCanvas", "")>>
              /\ last' = LastRec("onAdd", "engine", FALSE)
              /\ UNCHANGED <<tilesRenderer, dracoLoader, engines, nextEngine,
                             work, repaintTimer, activeTimers>>
         [] OTHER ->
              LET e  == nextEngine
                  st == StartRepaintLoop(repaintTimer, m, activeTimers)
              IN
              /\ nextEngine <= MaxEngines
              /\ renderer' = NewRenderer
              /\ lodCamera' = TRUE
              /\ renderCamera' = TRUE
              /\ scene' = TRUE
              /\ lodPose' = LodPose(config)
              /\ tilesRenderer' = e
              /\ dracoLoader' = e
              /\ engines' = SetResolution(
                      [engines EXCEPT ![e] =
                          [state |-> "live", draco |-> "live", kickMap |-> m,
                           listeners |-> LoadModelListeners,
                           resolution |-> NoResolution]], e, canvas)
              /\ nextEngine' = e + 1
              /\ work' = IdleWork
              /\ repaintTimer' = st.rt
              /\ activeTimers' = st.act
              /\ calls' = <<Call("map", m, "getCanvas", ""),
                     Call("draco", e, "setDecoderPath", ""),
                     Call("draco", e, "preload", ""),
                     Call("engine", e, "registerPlugin", "GLTFExtensionsPlugin"),
                     Call("engine", e, "registerPlugin", "TilesFadePlugin"),
                     Call("engine", e, "setCamera", "lodCamera"),
                     Call("map", m, "getCanvas", ""),
                     Call("engine", e, "setResolution", "lodCamera"),
                     Call("map", m, "triggerRepaint", "")>> \o st.calls
              /\ last' = LastRec("onAdd", "ok", FALSE)
    /\ UNCHANGED <<variant, gl, frames, viewState>>

\* ------------------------------------------------------------ onRemove
OnRemove ==
    LET sp == StopRepaintLoop(repaintTimer, activeTimers)
    IN
    /\ repaintTimer' = sp.rt
    /\ activeTimers' = sp.act
    /\ engines' = [e \in EngineIds |->
                     [engines[e] EXCEPT
                        !.state = IF e = tilesRenderer THEN "disposed" ELSE @,
                        !.draco = IF e = dracoLoader THEN "disposed" ELSE @]]
    /\ calls' = sp.calls
                \o (IF tilesRenderer # NoEngine
                    THEN <<Call("engine", tilesRenderer, "dispose", "")>>
                    ELSE <<>>)
                \o (IF dracoLoader # NoEngine
                    THEN <<Call("draco", dracoLoader, "dispose", "")>>
                    ELSE <<>>)
    /\ tilesRenderer' = NoEngine
    /\ dracoLoader' = NoEngine
    /\ renderer' = NoRenderer
    /\ scene' = FALSE
    /\ lodCamera' = FALSE
    /\ renderCamera' = FALSE
    /\ map' = NoMap
    /\ last' = LastRec("onRemove", "", HasActiveWork(tilesRenderer, work))
    /\ work' = IdleWork
    /\ lodPose' = NoPose
    /\ UNCHANGED <<variant, nextEngine, gl, frames, viewState>>

\* ------------------------------------------- the repaint-timer callback
\* A timer callback that repaints but never stops itself.
TickNoSelfStop(h) ==
    /\ h \in activeTimers
    /\ map # NoMap
    /\ calls' = <<Call("map", map, "triggerRepaint", "")>>
    /\ last' = LastRec("tick", "attached", HasActiveWork(tilesRenderer, work))
    /\ UNCHANGED <<variant, layerState, activeTimers, engines, nextEngine,
                   work, gl, frames, viewState, lodPose>>

\* A timer callback that checks for work first and repaints only when
\* there is some.
TickRepaintsOnlyWithWork(h) ==
    /\ h \in activeTimers
    /\ LET sp == StopRepaintLoop(repaintTimer, activeTimers)
           hw == HasActiveWork(tilesRenderer, work)
       IN
       IF map = NoMap
       THEN /\ repaintTimer' = sp.rt
            /\ activeTimers' = sp.act
            /\ calls' = sp.calls
            /\ last' = LastRec("tick", "detached", FALSE)
       ELSE /\ repaintTimer' = IF hw THEN repaintTimer ELSE sp.rt
            /\ activeTimers' = IF hw THEN activeTimers ELSE sp.act
            /\ calls' = IF hw THEN <<Call("map", map, "triggerRepaint", "")>>
                        ELSE sp.calls
            /\ last' = LastRec("tick", "attached", hw)
    /\ UNCHANGED <<variant, layerRefs, engines, nextEngine, work, gl, frames,
                   viewState, lodPose>>

\* The host runs the callback of an interval that is set and not cleared.
Tick(h) ==
    /\ h \in activeTimers
    /\ LET sp == StopRepaintLoop(repaintTimer, activeTimers)
           hw == HasActiveWork(tilesRenderer, work)
       IN
       IF map = NoMap
       THEN /\ repaintTimer' = sp.rt
            /\ activeTimers' = sp.act
            /\ calls' = sp.calls
            /\ last' = LastRec("tick", "detached", FALSE)
       ELSE /\ repaintTimer' = IF hw THEN repaintTimer ELSE sp.rt
            /\ activeTimers' = IF hw THEN activeTimers ELSE sp.act
            /\ calls' = <<Call("map", map, "triggerRepaint", "")>>
                        \o (IF hw THEN <<>> ELSE sp.calls)
            /\ last' = LastRec("tick", "attached", hw)
    /\ UNCHANGED <<variant, layerRefs, engines, nextEngine, work, gl, frames,
                   viewState, lodPose>>

\* -------------------------------------------------------------- render
\* The GL calls render makes before the draw: depth test on, LEQUAL,
\* depth writes on; the "offset" iteration also turns polygon offset on.
DepthSetup(v, g) ==
    [g EXCEPT !.depthTest = TRUE, !.depthFunc = "LEQUAL", !.depthMask = TRUE,
              !.polygonOffsetFill = IF v = "offset" THEN TRUE ELSE @]

\* renderer.state.reset(): three.js either only drops its state cache
\* (r = FALSE) or also puts the context back to the WebGL defaults,
\* default framebuffer included (r = TRUE), depending on its version.
StateReset(g, r) == IF r THEN GLDefault ELSE g

\* The GL calls render makes after the draw.
RestoreGL(v, g, prevFBO) ==
    [g EXCEPT !.fbo = prevFBO,
              !.polygonOffsetFill = IF v = "offset" THEN FALSE ELSE @]

\* gl.clear with the colour bit added.
ClearMaskColorAndDepth == "COLOR_BUFFER_BIT|DEPTH_BUFFER_BIT"

\* The bits render passes to gl.clear.
ClearMask == "DEPTH_BUFFER_BIT"

\* The guard without its engine check.
RenderGuardNoEngineCheck ==
    renderer.present /\ scene /\ map # NoMap /\ lodCamera /\ renderCamera

\* The null-reference guard at the top of render.
RenderGuard ==
    renderer.present /\ scene /\ map # NoMap /\ lodCamera /\ renderCamera
    /\ tilesRenderer # NoEngine

\* Calls of steps 1-3: resolution, camera inputs, engine advance.
RenderHeadCalls ==
    <<Call("map", map, "getCanvas", ""),
      Call("engine", tilesRenderer, "setResolution", "lodCamera"),
      Call("map", map, "getZoom", "")>>
    \o (IF variant = "split" THEN <<Call("map", map, "getCenter", "")>>
        ELSE <<>>)
    \o <<Call("renderCamera", 0, "setMatrices",
              RenderCamera(variant, config, host)),
         Call("engine", tilesRenderer, "update", "")>>

\* Calls of step 4 up to and including the draw.  The renderer itself
\* clears what its autoClear flags tell it to.
RenderDrawCalls ==
    <<Call("gl", 0, "getParameter", "FRAMEBUFFER_BINDING"),
      Call("gl", 0, "enable", "DEPTH_TEST"),
      Call("gl", 0, "depthFunc", "LEQUAL"),
      Call("gl", 0, "depthMask", "true"),
      Call("gl", 0, "clear", ClearMask)>>
    \o (IF variant = "offset"
        THEN <<Call("gl", 0, "enable", "POLYGON_OFFSET_FILL"),
               Call("gl", 0, "polygonOffset", "1,1")>>
        ELSE <<>>)
    \o <<Call("renderer", 0, "state.reset", ""),
         Call("renderer", 0, "render", "scene,renderCamera")>>
    \o (IF renderer.autoClear /\ renderer.autoClearColor
        THEN <<Call("gl", 1, "clear", "COLOR_BUFFER_BIT")>> ELSE <<>>)
    \o (IF renderer.autoClear /\ renderer.autoClearDepth
        THEN <<Call("gl", 1, "clear", "DEPTH_BUFFER_BIT")>> ELSE <<>>)

\* Calls after the draw.
RenderTailCalls(prevFBO) ==
    (IF variant = "offset"
     THEN <<Call("gl", 0, "disable", "POLYGON_OFFSET_FILL")>> ELSE <<>>)
    \o <<Call("gl", prevFBO, "bindFramebuffer", "FRAMEBUFFER"),
         Call("renderer", 0, "state.reset", "")>>

\* render(gl, options).
\*   fail : which collaborator throws in this frame, if any
\*   gd   : the GL state the external renderer leaves behind
\*   r    : whether the closing state.reset() touches the GL context
\* The engine's report read by the closing liveness check is `work`: what
\* the advance queued is there when the check runs.
Render(fail, gd, r) ==
    LET prevFBO == gl.fbo
        hw == HasActiveWork(tilesRenderer, work)
        st == StartRepaintLoop(repaintTimer, map, activeTimers)
    IN
    /\ CASE ~RenderGuard ->
              /\ fail = "none" /\ gd = gl /\ r = FALSE
              /\ calls' = <<>>
              /\ last' = LastRec("render", "guard", FALSE)
              /\ UNCHANGED <<gl, repaintTimer, activeTimers, lodPose, engines>>
         [] RenderGuard /\ fail = "update" ->
              /\ gd = gl /\ r = FALSE
              /\ calls' = RenderHeadCalls
              /\ last' = LastRec("render", "update", FALSE)
              /\ lodPose' = LodPoseAfterRender(lodPose, host)
              /\ engines' = SetResolution(engines, tilesRenderer, canvas)
              /\ UNCHANGED <<gl, repaintTimer, activeTimers>>
         [] RenderGuard /\ fail = "draw" ->
              /\ r = FALSE
              /\ gl' = gd
              /\ calls' = RenderHeadCalls \o RenderDrawCalls
              /\ last' = LastRec("render", "draw", FALSE)
              /\ lodPose' = LodPoseAfterRender(lodPose, host)
              /\ engines' = SetResolution(engines, tilesRenderer, canvas)
              /\ UNCHANGED <<repaintTimer, activeTimers>>
         [] OTHER ->
              /\ gl' = StateReset(RestoreGL(variant, gd, prevFBO), r)
              /\ repaintTimer' = IF hw THEN st.rt ELSE repaintTimer
              /\ activeTimers' = IF hw THEN st.act ELSE activeTimers
              /\ calls' = RenderHeadCalls \o RenderDrawCalls
                          \o RenderTailCalls(prevFBO)
                          \o (IF hw THEN st.calls ELSE <<>>)
              /\ last' = LastRec("render", "ok", hw)
              /\ lodPose' = LodPoseAfterRender(lodPose, host)
              /\ engines' = SetResolution(engines, tilesRenderer, canvas)
    /\ frames' = 1 - frames
    /\ UNCHANGED <<variant, layerRefs, nextEngine, work, viewState>>

\* ------------------------------------------------- engine event listeners
EventTypes == {"load-tile-set", "load-model", "needs-render", "load-error"}

\* kick registered for two of the three events only.
KickTypesNoNeedsRender == {"load-tile-set", "load-model"}

\* The events the kick listener is registered for.
KickTypes == {"load-tile-set", "load-model", "needs-render"}
\* ---- tile scenes
\* An object of a loaded tile's scene graph as the loader delivers it:
\* geometry "none" or "raw", material "none" or "original", frustum
\* culling on (the three.js default), not yet visited by a traversal of
\* the post-processor.  weld is what mergeVertices does when given the
\* object's geometry: "merged", it returns a new geometry; "kept", it
\* throws or returns the geometry it was given.
SceneObject(isMesh, geometry, material) ==
    [isMesh |-> isMesh, geometry |-> geometry, material |-> material,
     frustumCulled |-> TRUE, visits |-> 0, weld |-> "merged"]

\* The same object with a geometry that mergeVertices does not merge.
Unweldable(obj) == [obj EXCEPT !.weld = "kept"]

\* A textured mesh, a mesh without geometry, a mesh without material, a
\* group, and a non-mesh drawable (points, lines); the meshes with
\* geometry also with one that does not merge.
LoadedObjectKinds ==
    <<SceneObject(TRUE, "raw", "original"),
      Unweldable(SceneObject(TRUE, "raw", "original")),
      SceneObject(TRUE, "none", "original"),
      SceneObject(TRUE, "raw", "none"),
      Unweldable(SceneObject(TRUE, "raw", "none")),
      SceneObject(FALSE, "none", "none"),
      SceneObject(FALSE, "raw", "original")>>

LoadedObjects ==
    {LoadedObjectKinds[k] : k \in 1..Len(LoadedObjectKinds)}

\* The scene graphs of n objects, in traversal order.  The callback
\* treats each object on its own, so one order of the kinds stands for
\* all of them: the order of LoadedObjectKinds.
SceneGraphs(n) ==
    {[i \in 1..n |-> LoadedObjectKinds[f[i]]] :
        f \in {g \in [1..n -> 1..Len(LoadedObjectKinds)] :
                  \A i \in 1..(n - 1) : g[i] <= g[i + 1]}}

\* event.scene: absent, an object without a traverse function, or a
\* scene graph (its objects in traversal order, the root first).
NoScene == [kind |-> "none", objects |-> <<>>]

NonTraversable == [kind |-> "nontraversable", objects |-> <<>>]

Scenes ==
    {NoScene, NonTraversable}
    \cup {[kind |-> "traversable", objects |-> os] :
            os \in UNION {SceneGraphs(k) : k \in 1..MaxObjects}}

\* What processLoadedScene's traverse callback does to one object.
ProcessObject(v, obj) ==
    LET reached == obj.isMesh /\ (v = "split" \/ obj.geometry # "none")
    IN [obj EXCEPT
          !.visits = @ + 1,
          !.frustumCulled = IF v = "split" THEN FALSE ELSE @,
          !.geometry = IF v = "offset" /\ reached /\ obj.weld = "merged"
                       THEN "welded" ELSE @,
          !.material = IF reached /\ @ # "none" THEN "unlit" ELSE @]

\* A post-processor that traverses the scene twice.
ProcessLoadedSceneTwice(v, objs) ==
    [i \in 1..Len(objs) |-> ProcessObject(v, ProcessObject(v, objs[i]))]

\* processLoadedScene(root)
ProcessLoadedScene(v, objs) ==
    [i \in 1..Len(objs) |-> ProcessObject(v, objs[i])]

\* The materials the cross-fade plugin finds on the scene, and wraps,
\* when its listener runs.
FadeWraps(objs) == [i \in 1..Len(objs) |-> objs[i].material]

\* ---- events
\* What an engine event carries: the scene and url of a load-model, the
\* url, tile content uri and error of a load-error, and whether two
\* seconds have passed since the progress log last wrote.
PlainEvent ==
    [scene |-> NoScene, url |-> "absent", tileUri |-> "absent",
     error |-> "absent", logDue |-> FALSE]

ErrorShapes == {"absent", "null", "Error", "string", "object"}

\* load-model events without a scene that can be traversed.
SceneLessEvents ==
    {[PlainEvent EXCEPT !.scene = s, !.url = u, !.logDue = d] :
        s \in {NoScene, NonTraversable}, u \in {"absent", "url"},
        d \in BOOLEAN}

LoadModelEvents ==
    SceneLessEvents
    \cup {[PlainEvent EXCEPT !.scene = s, !.url = "url", !.logDue = d] :
            s \in Scenes \ {NoScene, NonTraversable}, d \in BOOLEAN}

LoadErrorEvents ==
    {[PlainEvent EXCEPT !.url = u, !.tileUri = t, !.error = x] :
        u \in {"absent", "url"}, t \in {"absent", "uri"}, x \in ErrorShapes}

Events(type) ==
    CASE type = "load-model" -> LoadModelEvents
      [] type = "load-error" -> LoadErrorEvents
      [] OTHER -> {PlainEvent}

\* One event of each kind: a load-model without scene, with a
\* non-traversable one and with a one-mesh scene; a bare load-error.
SampleEvents(type) ==
    IF type = "load-model"
    THEN {PlainEvent, [PlainEvent EXCEPT !.scene = NonTraversable],
          [PlainEvent EXCEPT !.url = "url", !.scene =
              [kind |-> "traversable",
               objects |-> <<SceneObject(TRUE, "raw", "original")>>]]}
    ELSE {PlainEvent}

EventRec(type, ev) ==
    [op |-> "event", arg |-> type, hadWork |-> FALSE, ev |-> ev]

\* The first load-model listener without its guard.
PostProcessCallsUnguarded(e, ev) ==
    <<Call("scene", e, "processLoadedScene",
           ProcessLoadedScene(variant, ev.scene.objects))>>

\* The first load-model listener: post-process a traversable scene,
\* warn about anything else.
PostProcessCalls(e, ev) ==
    IF ev.scene.kind = "traversable"
    THEN <<Call("scene", e, "processLoadedScene",
                ProcessLoadedScene(variant, ev.scene.objects))>>
    ELSE <<Call("console", 0, "warn",
                <<"no traversable scene",
                  IF ev.url = "absent" THEN "(unknown url)" ELSE ev.url>>)>>

\* The progress log: every two seconds at most, and only while the
\* layer holds an engine that has stats.
StatsCalls(ev) ==
    IF ev.logDue /\ tilesRenderer # NoEngine /\ work.hasStats
    THEN <<Call("console", 0, "log", <<"stats">>)>>
    ELSE <<>>

\* The map the kick listener of engine e calls: the one onAdd was given.
KickMap(e) == engines[e].kickMap

\* The engine dispatches a load-model to its listeners in registration
\* order; each works on the scene as the ones before it left it.
RECURSIVE DispatchLoadModel(_, _, _, _, _)
DispatchLoadModel(ls, e, ev, objs, kick) ==
    IF ls = <<>> THEN <<>>
    ELSE LET l == Head(ls)
             post == l = "postProcess" /\ ev.scene.kind = "traversable"
         IN (CASE l = "postProcess" -> PostProcessCalls(e, ev)
               [] l = "fade" ->
                    <<Call("fade", e, "load-model", FadeWraps(objs))>>
               [] l = "kick" -> kick
               [] l = "stats" -> StatsCalls(ev))
            \o DispatchLoadModel(Tail(ls), e, ev,
                   IF post THEN ProcessLoadedScene(variant, objs) ELSE objs,
                   kick)

\* The url the load-error listener logs: the event's, else the tile
\* content's, else a placeholder.
LoadErrorUrl(ev) ==
    IF ev.url # "absent" THEN ev.url
    ELSE IF ev.tileUri # "absent" THEN ev.tileUri ELSE "(unknown)"

\* The message it logs: an Error's message, the text of any other
\* value, nothing for a missing one.
LoadErrorMessage(ev) ==
    CASE ev.error = "Error"  -> "message"
      [] ev.error = "string" -> "string"
      [] ev.error = "object" -> "[object Object]"
      [] OTHER -> ""

\* A load-error listener that also asks the engine to try again.
LoadErrorCallsWithRetry(e, ev) ==
    <<Call("console", 0, "warn",
           <<"tile load failure", LoadErrorUrl(ev), LoadErrorMessage(ev)>>),
      Call("engine", e, "update", "")>>

\* The load-error listener: one console.warn.
LoadErrorCalls(e, ev) ==
    <<Call("console", 0, "warn",
           <<"tile load failure", LoadErrorUrl(ev), LoadErrorMessage(ev)>>)>>

\* An engine that exists (disposed or not) dispatches an event to the
\* listeners onAdd registered on it.
EngineEvent(e, type, ev) ==
    /\ engines[e].state # "none"
    /\ LET st == StartRepaintLoop(repaintTimer, map, activeTimers)
           kick == <<Call("map", KickMap(e), "triggerRepaint", "")>>
                   \o st.calls
       IN
       /\ repaintTimer' = IF type \in KickTypes THEN st.rt ELSE repaintTimer
       /\ activeTimers' = IF type \in KickTypes THEN st.act ELSE activeTimers
       /\ calls' = CASE type = "load-model" ->
                          DispatchLoadModel(engines[e].listeners, e, ev,
                                            ev.scene.objects, kick)
                     [] type = "load-error" -> LoadErrorCalls(e, ev)
                     [] OTHER -> (IF type \in KickTypes THEN kick ELSE <<>>)
       /\ last' = EventRec(type, ev)
    /\ UNCHANGED <<variant, layerRefs, engines, nextEngine, work, gl, frames,
                   viewState, lodPose>>

\* ------------------------------------------------------------ environment
\* The current engine's queues move on their own (fetches finish, fades
\* run out, new tiles get queued).
EngineWork(w) ==
    /\ tilesRenderer # NoEngine
    /\ w # work
    /\ work' = w
    /\ UNCHANGED <<variant, layerState, activeTimers, engines, nextEngine,
                   gl, frames, last, calls, viewState, lodPose>>

\* The host draws its own layers and leaves the context as it likes.
HostGL(g) ==
    /\ g # gl
    /\ gl' = g
    /\ UNCHANGED <<variant, layerState, activeTimers, engines, nextEngine,
                   work, frames, last, calls, viewState, lodPose>>

\* The user pans, zooms, pitches or rotates the map.
HostMove(h) ==
    /\ h # host
    /\ host' = h
    /\ UNCHANGED <<variant, layerState, activeTimers, engines, nextEngine,
                   work, gl, frames, last, calls, config, lodPose, calc,
                   canvas>>

\* The window is resized: the host gives its canvas a new size.
Resize(c) ==
    /\ c # canvas
    /\ canvas' = c
    /\ UNCHANGED <<variant, layerState, activeTimers, engines, nextEngine,
                   work, gl, frames, last, calls, config, host, lodPose, calc>>

FailModes == {"none", "update", "draw"}

\* The life cycle in full (every map, engine, event and engine report),
\* with a host and a renderer that keep the GL context at its defaults.
Next ==
    \/ \E m \in Maps, f \in OnAddFails : OnAdd(m, f)
    \/ OnRemove
    \/ \E h \in TimerIds : Tick(h)
    \/ \E f \in FailModes, r \in BOOLEAN : Render(f, GLDefault, r)
    \/ \E e \in EngineIds, type \in EventTypes :
          \E ev \in SampleEvents(type) : EngineEvent(e, type, ev)
    \/ \E w \in WorkStates : EngineWork(w)

Spec == Init /\ [][Next]_vars

\* Timer callbacks keep coming while an interval is set.
FairSpec == Spec /\ WF_vars(\E h \in TimerIds : Tick(h))

\* The frames in full: every GL context at entry, every context the
\* external renderer can leave behind, over one attach/detach of the
\* layer.
GLWorkStates == {IdleWork, [IdleWork EXCEPT !.downloading = MaxWork]}

GLInit == InitWith(GLStates, {DefaultConfig}, {DefaultHost})

GLNext ==
    \/ \E m \in Maps : nextEngine = 1 /\ OnAdd(m, "none")
    \/ OnRemove
    \/ \E h \in TimerIds : Tick(h)
    \/ \E f \in FailModes, gd \in GLStates, r \in BOOLEAN : Render(f, gd, r)
    \/ \E w \in GLWorkStates : EngineWork(w)
    \/ \E g \in GLStates : HostGL(g)

GLSpec == GLInit /\ [][GLNext]_vars

\* The view in full: every anchor, and every view the user can move the
\* host map to, over one attach/detach of the layer with its frames,
\* ticks and events.
CamInit == InitWith({GLDefault}, Configs, {DefaultHost})

CamNext ==
    \/ \E m \in Maps : nextEngine = 1 /\ OnAdd(m, "none")
    \/ OnRemove
    \/ \E h \in TimerIds : Tick(h)
    \/ \E f \in FailModes : Render(f, GLDefault, FALSE)
    \/ \E e \in EngineIds, type \in KickTypes : EngineEvent(e, type, PlainEvent)
    \/ \E h \in Hosts : HostMove(h)

CamSpec == CamInit /\ [][CamNext]_vars

\* The frames of a window that is resized: attach, detach and frames
\* (also failing ones) between changes of the canvas size and of the
\* engine's queues.
ResNext ==
    \/ \E m \in Maps : OnAdd(m, "none")
    \/ OnRemove
    \/ \E f \in FailModes : Render(f, GLDefault, FALSE)
    \/ \E c \in Canvases : Resize(c)
    \/ \E w \in GLWorkStates : EngineWork(w)

ResSpec == Init /\ [][ResNext]_vars

\* The events in full: every scene a load-model can carry and every
\* shape of a load-error, from the engine of one attach/detach of the
\* layer, between frames and ticks.
EventNext ==
    \/ \E m \in Maps : nextEngine = 1 /\ OnAdd(m, "none")
    \/ OnRemove
    \/ \E h \in TimerIds : Tick(h)
    \/ \E f \in FailModes : Render(f, GLDefault, FALSE)
    \/ \E e \in EngineIds, type \in EventTypes :
          \E ev \in Events(type) : EngineEvent(e, type, ev)
    \/ \E w \in GLWorkStates : EngineWork(w)

EventSpec == Init /\ [][EventNext]_vars

\* ------------------------------------------------- LOD selection
\* The refine threshold onAdd gives the engine.
errorTarget == 0

\* tan(SELECTION_FOV_DEG / 2), the LOD camera's half field of view.
TanHalfFov == RI(1)

\* A threshold the engine has of its own.
OwnErrorTargets == {0, 1}

\* The engine's threshold after onAdd: errorTarget when the engine has
\* the property for onAdd to set, the engine's own otherwise.
OnAddErrorTarget(hasProperty, own) ==
    IF hasProperty THEN errorTarget ELSE own

\* Canvas heights in pixels the host may have; 0 for a canvas not laid
\* out yet.
CanvasHeights == {0, 1, 1080}

\* The engine's error denominator for the LOD camera at the resolution
\* the layer reports: 2 * tan(fov / 2) / (canvas height *
\* RESOLUTION_MULTIPLIER).
SseDenominator(height) ==
    RDiv(RMul(RI(2), TanHalfFov), RI(height * RESOLUTION_MULTIPLIER))

\* SSE = geometricError / (distance * sseDenominator)
ScreenSpaceError(geometricError, distance, denominator) ==
    RDiv(geometricError, RMul(distance, denominator))

\* A geometric error of k tenths of a metre.
GeometricError(k) == Rat(k, 1000000)

\* A traversal that refines only above an error of one pixel.
CanTraverseAboveOnePixel(error, target, unconditional) == RGt(error, RI(1))

\* The engine's canTraverse: it stops at a tile whose error is at most
\* the threshold, unless the tile can be refined unconditionally.
CanTraverse(error, target, unconditional) ==
    ~(RLe(error, RI(target)) /\ ~unconditional)

\* A tile hierarchy: the parent of each tile, 0 for the root.
TileParent == <<0, 1, 1, 2, 2>>

Tiles == 1..Len(TileParent)

Children(t) == {c \in Tiles : TileParent[c] = t}

Leaves == {t \in Tiles : Children(t) = {}}

RECURSIVE Ancestors(_)
Ancestors(t) ==
    IF TileParent[t] = 0 THEN {}
    ELSE {TileParent[t]} \cup Ancestors(TileParent[t])

\* The geometric errors of a tile set, in tenths of a metre: none
\* negative, no child coarser than its parent.
TileErrors ==
    {ge \in [Tiles -> 0..MaxGeomError] :
        \A t \in Tiles : TileParent[t] # 0 => ge[t] <= ge[TileParent[t]]}

\* The tiles canUnconditionallyRefine holds for: none, or one that has
\* children.
UnconditionalSets == {{}} \cup {{t} : t \in Tiles \ Leaves}

\* The tiles outside the LOD camera's frustum: none ("a 90 degree FOV
\* ensures the entire tileset fits inside the frustum"), or one at the
\* edge.
OutsideSets == {{}} \cup {{t} : t \in Tiles}

\* A tile selection about to start at the root.
Selections ==
    {[phase |-> "lod", ge |-> ge, height |-> h,
      errorTarget |-> OnAddErrorTarget(has, own),
      unconditional |-> u, outside |-> o,
      pending |-> {1}, visited |-> {}, stopped |-> {}] :
        ge \in TileErrors, h \in CanvasHeights, has \in BOOLEAN,
        own \in OwnErrorTargets, u \in UnconditionalSets,
        o \in OutsideSets}

\* The error of tile t as the engine computes it for the LOD camera,
\* SELECTION_HEIGHT_M away.
TileError(c, t) ==
    ScreenSpaceError(GeometricError(c.ge[t]), Metres(SELECTION_HEIGHT_M),
                     SseDenominator(c.height))

\* The engine visits a tile: a tile outside the frustum is culled with
\* all below it; another one it refines into the children when
\* canTraverse lets it, and stops there otherwise.
VisitTile(t) ==
    /\ calc.phase = "lod"
    /\ t \in calc.pending
    /\ LET inFrustum == t \notin calc.outside
           refine == CanTraverse(TileError(calc, t), calc.errorTarget,
                                 t \in calc.unconditional)
       IN calc' = [calc EXCEPT
                     !.visited = @ \cup {t},
                     !.pending = (@ \ {t})
                         \cup (IF inFrustum /\ refine
                               THEN Children(t) ELSE {}),
                     !.stopped = IF inFrustum /\ ~refine
                                 THEN @ \cup {t} ELSE @]
    /\ UNCHANGED <<variant, layerState, activeTimers, engines, nextEngine,
                   work, gl, frames, last, calls, config, host, lodPose,
                   canvas>>

LodInit == InitOver({GLDefault}, {DefaultConfig}, {DefaultHost}, Selections)

LodNext == \E t \in Tiles : VisitTile(t)

LodSpec == LodInit /\ [][LodNext]_vars

\* The transform on its own: every anchor of the model, every altitude
\* offset and world size, every host centre and projection.
MatConfigs ==
    [lng0 : Longitudes, lat0 : Latitudes, altitudeOffset : AltitudeOffsets]

MatHosts ==
    {[zoom |-> z, lng |-> c[1], lat |-> c[2], attitude |-> p,
      transformWorldSize |-> 0] :
        z \in 0..MaxZoom, c \in {<<53, -37>>, <<90, 0>>, <<-127, 53>>},
        p \in Attitudes}

MatInit == InitWith({GLDefault}, MatConfigs, MatHosts)

\* ecefToMerc = buildEcefToMercatorMatrix(lng0, lat0, altitudeOffset,
\* worldSize), with the projection it will be combined with.
BuildMatrix ==
    /\ calc.phase = "none"
    /\ calc' = [phase |-> "built",
                p |-> ModelViewProjection(host),
                matrix |-> BuildEcefToMercatorMatrix(variant, config.lng0,
                              config.lat0, config.altitudeOffset,
                              WorldSize(host))]
    /\ UNCHANGED <<variant, layerState, activeTimers, engines, nextEngine,
                   work, gl, frames, last, calls, config, host, lodPose,
                   canvas>>

\* The camera-relative iteration splits the built matrix around the
\* host's centre.
SplitMatrix ==
    /\ calc.phase = "built"
    /\ variant = "split"
    /\ calc' = [calc EXCEPT !.phase = "split"]
                 @@ [cx |-> CamMerc(host)[1], cy |-> CamMerc(host)[2],
                     adjustedProjection |->
                        AdjustedProjection(calc.p, CamMerc(host)[1],
                                           CamMerc(host)[2]),
                     relativeModel |->
                        RelativeModel(calc.matrix, CamMerc(host)[1],
                                      CamMerc(host)[2])]
    /\ UNCHANGED <<variant, layerState, activeTimers, engines, nextEngine,
                   work, gl, frames, last, calls, config, host, lodPose,
                   canvas>>

\* The built matrix applied to the anchor's ECEF position at altitude 0
\* and at altitude 100 m.
TransformPoints ==
    /\ calc.phase = "built"
    /\ calc' = [calc EXCEPT !.phase = "applied"]
                 @@ [ground |-> ApplyToPoint(calc.matrix,
                                   LngLatToECEF(config.lng0, config.lat0,
                                                RI(0))),
                     raised |-> ApplyToPoint(calc.matrix,
                                   LngLatToECEF(config.lng0, config.lat0,
                                                Metres(100)))]
    /\ UNCHANGED <<variant, layerState, activeTimers, engines, nextEngine,
                   work, gl, frames, last, calls, config, host, lodPose,
                   canvas>>

MatNext == BuildMatrix \/ SplitMatrix \/ TransformPoints

MatSpec == MatInit /\ [][MatNext]_vars

\* ------------------------------------------------------- tile preloader
\* src/app/utils/tilePreloader.ts: preloadAllTiles collects the tile
\* URLs of a tileset and of its sub-tilesets, then fetches them in
\* batches.  A run of it is a computation of its own, kept in `calc`.
MaxDocs == 2          \* tileset JSON documents the server holds
MaxConcurrency == 2   \* largest `concurrency` argument

JsonIds == 1..MaxDocs

\* Document d names tiles d and d + 1.
TileIds == 1..(MaxDocs + 1)

\* A URL or content uri: what it names (extension and resource) and how
\* it is written.  "plain" and "dotted" (with ./ or ../ segments) name
\* the same resource; "absolute" is an http(s) uri inside a document;
\* "relative" is a tileset URL without scheme and host.
Uri(ext, id, form) == [ext |-> ext, id |-> id, form |-> form]

\* new URL(u).href
Href(u) == [u EXCEPT !.form = "plain"]

\* new URL(u) throws for a URL that is not absolute.
IsUrl(u) == u.form # "relative"

\* The tilesetUrl arguments: the root tileset written either way, and a
\* relative URL.
TilesetUrls ==
    {Uri("json", 1, "plain"), Uri("json", 1, "dotted"),
     Uri("json", 1, "relative")}

\* The uris of sub-tilesets document d may hold: itself, the next
\* document (after the last one, the root) and the root, the last two
\* written with dot segments; up to two per document, in tree order,
\* the same one twice included.
SubUris(d) ==
    {Uri("json", d, "plain"),
     Uri("json", IF d < MaxDocs THEN d + 1 ELSE 1, "dotted"),
     Uri("json", 1, "dotted")}

SubUriLists(d) == UNION {[1..k -> SubUris(d)] : k \in 0..2}

\* The content uris of document d besides its sub-tilesets, in tree
\* order: its own tile, the next document's tile written with dot
\* segments, a tile on another host, and a model that is not a b3dm.
TileUris(d) ==
    <<Uri("b3dm", d, "plain"), Uri("b3dm", d + 1, "dotted"),
      Uri("b3dm", d, "absolute"), Uri("glb", d, "plain")>>

\* walk(doc.root): the uris it keeps, as full URLs.
IsKept(u, ext) == u.form # "absolute" /\ u.ext = ext

WalkB3dm(uris) == SelectSeq(uris, LAMBDA u : IsKept(u, "b3dm"))

WalkJson(uris) == SelectSeq(uris, LAMBDA u : IsKept(u, "json"))

\* How the fetch of a tileset JSON ends: an ok response, a response
\* that is not ok, or a rejected fetch.
JsonFetchOutcomes == {"ok", "notOk", "rejects"}

\* How res.json() of an ok response ends: a document, a body that is
\* not JSON, or the JSON value null.
JsonBodyOutcomes == {"ok", "badJson", "null"}

\* How the fetch of a tile ends, and the reading of its body.
TileOutcomes == {"ok", "notOk", "rejects"}

BodyOutcomes == {"ok", "rejects"}

\* A visited set keyed by the URL as written.
VisitedKeyAsWritten(u) == u

\* The key of the visited set: normalizedUrl.
VisitedKey(u) == Href(u)

\* new Set(...) of the URLs s added in order to the ones in seen.
RECURSIVE AddAll(_, _)
AddAll(seen, s) ==
    IF s = <<>> THEN seen
    ELSE AddAll(IF \E k \in 1..Len(seen) : seen[k] = Head(s)
                THEN seen ELSE Append(seen, Head(s)),
                Tail(s))

\* [...new Set(rawUrls.map(u => new URL(u).href))]
Deduplicate(s) == AddAll(<<>>, [k \in 1..Len(s) |-> Href(s[k])])

\* A batch that takes one URL more than `concurrency`.
BatchOneMore(urls, i, c) ==
    SubSeq(urls, i + 1, IF i + c + 1 < Len(urls) THEN i + c + 1 ELSE Len(urls))

\* allUrls.slice(i, i + concurrency)
Batch(urls, i, c) ==
    SubSeq(urls, i + 1, IF i + c < Len(urls) THEN i + c ELSE Len(urls))

\* Math.round((loaded / total) * 100) in binary64, for 1 <= loaded <=
\* total.  A number is a sequence of bits, lowest first, with its count
\* of fraction bits; the quotient and the product are each rounded to
\* 53 significant bits, ties to even, and Math.round adds the half bit
\* to the integer part.  Each intermediate result is bound as a value
\* before the next operation uses it.
Percentage(loaded, total) ==
    LET Mantissa == 53
        RECURSIVE Normalise(_, _)
        \* loaded * 2^s in [total, 2 * total)
        Normalise(n, s) ==
            IF n >= total THEN <<n, s>> ELSE Normalise(2 * n, s + 1)
        RECURSIVE Divide(_, _, _)
        \* the next k bits of r / total for r < 2 * total, and the
        \* doubled remainder
        Divide(r, k, acc) ==
            IF k = 0 THEN <<acc, r>>
            ELSE Divide(2 * (r % total), k - 1, <<r \div total>> \o acc)
        RECURSIVE Increment(_)
        Increment(bits) ==
            IF bits = <<>> THEN <<1>>
            ELSE IF bits[1] = 0 THEN <<1>> \o Tail(bits)
            ELSE <<0>> \o Increment(Tail(bits))
        RECURSIVE Binary(_)
        Binary(n) ==
            IF n = 0 THEN <<>> ELSE <<n % 2>> \o Binary(n \div 2)
        RECURSIVE Times(_, _, _)
        Times(bits, factor, carry) ==
            IF bits = <<>> THEN Binary(carry)
            ELSE <<(factor * bits[1] + carry) % 2>>
                 \o Times(Tail(bits), factor,
                          (factor * bits[1] + carry) \div 2)
        RECURSIVE Value(_)
        Value(bits) ==
            IF bits = <<>> THEN 0 ELSE bits[1] + 2 * Value(Tail(bits))
        \* bits rounded to 53 significant bits, and the bits dropped
        RoundToMantissa(bits) ==
            LET d == Len(bits) - Mantissa
                kept == SubSeq(bits, d + 1, Len(bits))
                up == /\ bits[d] = 1
                      /\ \/ kept[1] = 1
                         \/ \E k \in 1..(d - 1) : bits[k] = 1
            IN IF d <= 0 THEN <<bits, 0>>
               ELSE <<IF up THEN Increment(kept) ELSE kept, d>>
        \* loaded / total: the bits, and the doublings of Normalise
        Quotient(start) ==
            {<<IF \/ division[2] > total
                  \/ division[2] = total /\ division[1][1] = 1
               THEN Increment(division[1]) ELSE division[1], start[2]>> :
               division \in {Divide(start[1], Mantissa, <<>>)}}
        \* quotient * 100: the bits, and the count of fraction bits
        Product(quotient) ==
            {<<product[1], Mantissa - 1 + quotient[2] - product[2]>> :
               product \in {RoundToMantissa(exact) :
                               exact \in {Times(quotient[1], 100, 0)}}}
        \* Math.round of bits with the given count of fraction bits
        Round(bits, fraction) ==
            Value(SubSeq(bits, fraction + 1, Len(bits)))
            + (IF fraction <= Len(bits) THEN bits[fraction] ELSE 0)
    IN CHOOSE percentage \in
           {Round(product[1], product[2]) :
              product \in UNION {Product(quotient) :
                  quotient \in UNION {Quotient(start) :
                      start \in {Normalise(loaded, 0)}}}} : TRUE

\* The percentage of every report a run over the tiles of the server can
\* make, by total and loaded.
Percentages ==
    [total \in 1..Cardinality(TileIds) |->
       [loaded \in 1..total |-> Percentage(loaded, total)]]

\* onProgress({loaded, total, percentage}), for the tile whose fetch
\* ended (0: none).
Progress(loaded, total, percentage, tile) ==
    [loaded |-> loaded, total |-> total, percentage |-> percentage,
     tile |-> tile]

\* A call of preloadAllTiles(tilesetUrl, onProgress, concurrency) not
\* yet made.
PreloadCall(tilesetUrl, concurrency) ==
    [phase |-> "idle", tilesetUrl |-> tilesetUrl,
     concurrency |-> concurrency,
     stack |-> <<>>, visited |-> {},
     jsonFetches |-> [d \in JsonIds |-> 0], obtained |-> {},
     unfetched |-> {}, referenced |-> {}, thrown |-> "none",
     rawUrls |-> <<>>, allUrls |-> <<>>, i |-> 0,
     flight |-> [t \in TileIds |-> "none"],
     tileFetches |-> [t \in TileIds |-> 0],
     loaded |-> 0, progress |-> <<>>, cache |-> {}]

PreloadCalls ==
    {PreloadCall(u, c) : u \in TilesetUrls, c \in 1..MaxConcurrency}

\* A call of collectAllB3dmUrls(jsonUrl, visited) waiting for its fetch
\* ("fetch"), waiting for res.json() ("json"), or in its loop over the
\* sub-tilesets left ("loop").
Frame(jsonUrl, pc, b3dmUrls, subJsonUrls) ==
    [jsonUrl |-> jsonUrl, pc |-> pc, b3dmUrls |-> b3dmUrls,
     subJsonUrls |-> subJsonUrls]

\* Something throws inside collectAllB3dmUrls outside its try: every
\* pending call of it rejects, and the await in preloadAllTiles will
\* throw.
Throw(c, thrown) == [c EXCEPT !.stack = <<>>, !.thrown = thrown]

\* The catch of preloadAllTiles and its total === 0 branch: one report,
\* and the empty cache returned.
ReportNothing(c) ==
    [c EXCEPT !.phase = "resolved",
              !.progress = Append(@, Progress(0, 0, 100, 0))]

\* collectAllB3dmUrls(u, visited) up to its first await, called with the
\* frames st below it: nothing new when u was visited, else u marked and
\* its fetch started.
EnterCollect(c, st, u) ==
    IF VisitedKey(u) \in c.visited
    THEN [c EXCEPT !.stack = st]
    ELSE [c EXCEPT !.stack = Append(st, Frame(u, "fetch", <<>>, <<>>)),
                   !.visited = @ \cup {VisitedKey(u)},
                   !.jsonFetches[u.id] = @ + 1]

\* preloadAllTiles is called: it runs to its await, with the fetch of
\* the root tileset started or, when new URL(tilesetUrl) throws, with
\* the collection rejected.
PreloadAllTiles ==
    /\ calc.phase = "idle"
    /\ calc' = IF IsUrl(calc.tilesetUrl)
               THEN EnterCollect([calc EXCEPT !.phase = "collect"], <<>>,
                                 calc.tilesetUrl)
               ELSE Throw([calc EXCEPT !.phase = "collect"], "url")
    /\ UNCHANGED <<variant, layerState, activeTimers, engines, nextEngine,
                   work, gl, frames, last, calls, config, host, lodPose,
                   canvas>>

\* The value a finished collectAllB3dmUrls call hands to its caller:
\* appended to the caller's list, or, from the outermost call, rawUrls.
ReturnUrls(c, urls) ==
    LET n == Len(c.stack)
    IN IF n = 1
       THEN [c EXCEPT !.phase = "collected", !.stack = <<>>,
                      !.rawUrls = urls]
       ELSE [c EXCEPT !.stack =
                [k \in 1..(n - 1) |->
                    IF k = n - 1
                    THEN [c.stack[k] EXCEPT !.b3dmUrls = @ \o urls]
                    ELSE c.stack[k]]]

\* The fetch of the tileset on top of the stack ends: an ok response
\* goes on to res.json(); a response that is not ok and a rejected
\* fetch return [].
TilesetFetchSettles(outcome) ==
    /\ calc.phase = "collect"
    /\ calc.stack # <<>>
    /\ LET n == Len(calc.stack)
           top == calc.stack[n]
       IN
       /\ top.pc = "fetch"
       /\ calc' =
            IF outcome = "ok"
            THEN [calc EXCEPT !.stack[n].pc = "json"]
            ELSE ReturnUrls([calc EXCEPT
                               !.unfetched = @ \cup {top.jsonUrl.id}],
                            <<>>)
    /\ UNCHANGED <<variant, layerState, activeTimers, engines, nextEngine,
                   work, gl, frames, last, calls, config, host, lodPose,
                   canvas>>

\* res.json() of the tileset on top of the stack ends.  A document is
\* walked; a body that is not JSON returns []; a null document makes
\* doc.root throw, which no caller catches before preloadAllTiles.
TilesetBodySettles(outcome, subUris) ==
    /\ calc.phase = "collect"
    /\ calc.stack # <<>>
    /\ LET n == Len(calc.stack)
           top == calc.stack[n]
           uris == TileUris(top.jsonUrl.id) \o subUris
       IN
       /\ top.pc = "json"
       /\ subUris \in SubUriLists(top.jsonUrl.id)
       /\ outcome # "ok" => subUris = <<>>
       /\ calc' =
            CASE outcome = "ok" ->
                   [calc EXCEPT
                      !.obtained = @ \cup {top.jsonUrl.id},
                      !.referenced = @ \cup
                          {subUris[k].id : k \in 1..Len(subUris)},
                      !.stack[n] = Frame(top.jsonUrl, "loop",
                                         WalkB3dm(uris), WalkJson(uris))]
              [] outcome = "null" -> Throw(calc, "root")
              [] OTHER ->
                   ReturnUrls([calc EXCEPT
                                 !.unfetched = @ \cup {top.jsonUrl.id}],
                              <<>>)
    /\ UNCHANGED <<variant, layerState, activeTimers, engines, nextEngine,
                   work, gl, frames, last, calls, config, host, lodPose,
                   canvas>>

\* The await of the collection throws in preloadAllTiles: its catch
\* logs the error, reports once and returns the empty cache.
CollectionFails ==
    /\ calc.phase = "collect"
    /\ calc.thrown # "none"
    /\ calc' = ReportNothing(calc)
    /\ UNCHANGED <<variant, layerState, activeTimers, engines, nextEngine,
                   work, gl, frames, last, calls, config, host, lodPose,
                   canvas>>

\* One turn of the loop over subJsonUrls: the next sub-tileset is
\* collected; after the last one the call returns its list.
CollectSubTilesets ==
    /\ calc.phase = "collect"
    /\ calc.stack # <<>>
    /\ LET n == Len(calc.stack)
           top == calc.stack[n]
       IN
       /\ top.pc = "loop"
       /\ calc' =
            IF top.subJsonUrls = <<>>
            THEN ReturnUrls(calc, top.b3dmUrls)
            ELSE EnterCollect(calc,
                    [calc.stack EXCEPT ![n].subJsonUrls = Tail(@)],
                    Head(top.subJsonUrls))
    /\ UNCHANGED <<variant, layerState, activeTimers, engines, nextEngine,
                   work, gl, frames, last, calls, config, host, lodPose,
                   canvas>>

\* The fetches a batch starts.
StartFetches(c, batch) ==
    [c EXCEPT
       !.flight = [t \in TileIds |->
                     IF \E k \in 1..Len(batch) : batch[k].id = t
                     THEN "fetching" ELSE @[t]],
       !.tileFetches = [t \in TileIds |->
                     IF \E k \in 1..Len(batch) : batch[k].id = t
                     THEN @[t] + 1 ELSE @[t]]]

\* The collection's bookkeeping, dropped once it has returned.
CollectionOver(c) ==
    [c EXCEPT !.rawUrls = <<>>, !.visited = {}, !.obtained = {},
              !.unfetched = {}, !.referenced = {},
              !.jsonFetches = [d \in JsonIds |-> 0]]

\* rawUrls have come back: deduplicate, and either report nothing to
\* load or start the first batch.
StartPreload ==
    /\ calc.phase = "collected"
    /\ LET allUrls == Deduplicate(calc.rawUrls)
           c == [CollectionOver(calc) EXCEPT !.allUrls = allUrls]
       IN calc' = IF Len(allUrls) = 0
                  THEN ReportNothing(c)
                  ELSE StartFetches([c EXCEPT !.phase = "preload"],
                                    Batch(allUrls, 0, c.concurrency))
    /\ UNCHANGED <<variant, layerState, activeTimers, engines, nextEngine,
                   work, gl, frames, last, calls, config, host, lodPose,
                   canvas>>

\* A tile that counts and reports only when it was cached.
TileDoneReportsSuccess(c, t, ok) ==
    IF ok
    THEN [c EXCEPT !.flight[t] = "settled",
                   !.cache = @ \cup {t},
                   !.loaded = @ + 1,
                   !.progress = Append(@, Progress(c.loaded + 1, Len(c.allUrls),
                                   Percentages[Len(c.allUrls)][c.loaded + 1], t))]
    ELSE [c EXCEPT !.flight[t] = "settled"]

\* Tile t is done: the buffer cached when there is one, then the
\* finally block: loaded++ and onProgress.
TileDone(c, t, ok) ==
    [c EXCEPT !.flight[t] = "settled",
              !.cache = IF ok THEN @ \cup {t} ELSE @,
              !.loaded = @ + 1,
              !.progress = Append(@, Progress(c.loaded + 1, Len(c.allUrls),
                              Percentages[Len(c.allUrls)][c.loaded + 1], t))]

\* fetch(url) of tile t ends: an ok response goes on to read the body,
\* anything else is logged and the tile is done.
TileFetchSettles(t, outcome) ==
    /\ calc.phase = "preload"
    /\ calc.flight[t] = "fetching"
    /\ calc' = IF outcome = "ok" THEN [calc EXCEPT !.flight[t] = "reading"]
               ELSE TileDone(calc, t, FALSE)
    /\ UNCHANGED <<variant, layerState, activeTimers, engines, nextEngine,
                   work, gl, frames, last, calls, config, host, lodPose,
                   canvas>>

\* res.arrayBuffer() of tile t ends: the buffer is cached, or the
\* failure is logged; either way the tile is done.
TileBodySettles(t, outcome) ==
    /\ calc.phase = "preload"
    /\ calc.flight[t] = "reading"
    /\ calc' = TileDone(calc, t, outcome = "ok")
    /\ UNCHANGED <<variant, layerState, activeTimers, engines, nextEngine,
                   work, gl, frames, last, calls, config, host, lodPose,
                   canvas>>

\* Tiles whose fetch or body is outstanding.
InFlight(c) == {t \in TileIds : c.flight[t] \in {"fetching", "reading"}}

\* Promise.allSettled of the batch resolves: the next batch starts, or
\* preloadAllTiles returns the cache.
BatchSettled ==
    /\ calc.phase = "preload"
    /\ InFlight(calc) = {}
    /\ LET i == calc.i + calc.concurrency
       IN calc' = IF i < Len(calc.allUrls)
                  THEN StartFetches([calc EXCEPT !.i = i],
                                    Batch(calc.allUrls, i, calc.concurrency))
                  ELSE [calc EXCEPT !.phase = "resolved", !.i = i]
    /\ UNCHANGED <<variant, layerState, activeTimers, engines, nextEngine,
                   work, gl, frames, last, calls, config, host, lodPose,
                   canvas>>

PreloadInit ==
    InitOver({GLDefault}, {DefaultConfig}, {DefaultHost}, PreloadCalls)

PreloadNext ==
    \/ PreloadAllTiles
    \/ \E o \in JsonFetchOutcomes : TilesetFetchSettles(o)
    \/ \E o \in JsonBodyOutcomes,
          s \in UNION {SubUriLists(d) : d \in JsonIds} :
          TilesetBodySettles(o, s)
    \/ CollectionFails
    \/ CollectSubTilesets
    \/ StartPreload
    \/ \E t \in TileIds, o \in TileOutcomes : TileFetchSettles(t, o)
    \/ \E t \in TileIds, o \in BodyOutcomes : TileBodySettles(t, o)
    \/ BatchSettled

PreloadSpec == PreloadInit /\ [][PreloadNext]_vars

\* Every fetch settles and every continuation gets its turn.
FairPreloadSpec == PreloadSpec /\ WF_vars(PreloadNext)

\* ====================================================================
\* Properties
\* ====================================================================
HasCall(t, fn) == \E i \in 1..Len(calls) : calls[i].t = t /\ calls[i].fn = fn

CallsAt(t, fn) == {i \in 1..Len(calls) : calls[i].t = t /\ calls[i].fn = fn}

\* The handler that ran last asked for the repaint loop: a successful
\* onAdd, one of the three engine events, or a render whose closing
\* liveness check found work.
StartRequested ==
    \/ last.op = "onAdd" /\ last.arg = "ok"
    \/ last.op = "event"
       /\ last.arg \in {"load-tile-set", "load-model", "needs-render"}
    \/ last.op = "render" /\ last.arg = "ok" /\ last.hadWork

\* The engine reports nothing outstanding: no downloads, parses, queued
\* jobs, running queues or cross-fades.
Quiet(w) ==
    /\ w.hasStats => (w.downloading = 0 /\ w.parsing = 0 /\ w.queued = 0)
    /\ ~w.dqRunning /\ ~w.pqRunning
    /\ w.hasFade => w.fadingTiles = 0

AnyRefAbsent ==
    \/ ~renderer.present \/ ~scene \/ map = NoMap
    \/ ~lodCamera \/ ~renderCamera \/ tilesRenderer = NoEngine

\* C1: the repaint loop is Idle (no handle) or Running (one handle): at
\* most one interval is ever set, it is the one in this.repaintTimer, and
\* a start request made while Running leaves field and intervals as they
\* are.
C1_OneRepaintTimer ==
    /\ [](/\ Cardinality(activeTimers) <= 1
          /\ activeTimers = IF repaintTimer = NoTimer THEN {}
                            ELSE {repaintTimer})
    /\ [][(StartRequested' /\ repaintTimer # NoTimer)
            => UNCHANGED <<repaintTimer, activeTimers>>]_vars

\* A needs-render event reached the attached layer while the loop was
\* already Running: the loop runs and no interval was set by the handler.
C1_Witness ==
    /\ last.op = "event" /\ last.arg = "needs-render"
    /\ map # NoMap /\ repaintTimer # NoTimer
    /\ ~HasCall("host", "setInterval")

\* A step that signals work: one of the three engine events, or an
\* onAdd that gets as far as its seed.
WorkSignalStep ==
    \/ /\ last'.op = "event"
       /\ last'.arg \in {"load-tile-set", "load-model", "needs-render"}
       /\ \E e \in EngineIds : EngineEvent(e, last'.arg, last'.ev)
    \/ /\ last'.op = "onAdd" /\ last'.arg = "ok"
       /\ \E m \in Maps : OnAdd(m, "none")

\* C2: if from some point on the layer stays attached, the engine reports
\* nothing outstanding and no work signal arrives, then (timer callbacks
\* being run fairly) the loop is eventually Idle for good.
C2_SelfTermination ==
    (/\ <>[](map # NoMap /\ Quiet(work))
     /\ <>[][~WorkSignalStep]_vars)
    => <>[](repaintTimer = NoTimer)

\* The loop was Running with a quiet engine and a callback stopped it.
C2_Witness ==
    /\ last.op = "tick" /\ last.arg = "attached" /\ ~last.hadWork
    /\ map # NoMap /\ Quiet(work) /\ repaintTimer = NoTimer
    /\ HasCall("host", "clearInterval")

\* C3: on an attached layer every work signal leaves the loop Running,
\* and a render whose liveness check finds nothing leaves the loop as it
\* was.
C3_WorkSignalsLeaveRunning ==
    /\ []((map # NoMap /\ StartRequested) => repaintTimer # NoTimer)
    /\ [][(frames' # frames /\ last'.arg = "ok" /\ ~last'.hadWork)
            => UNCHANGED <<repaintTimer, activeTimers>>]_vars

\* A render found work with the loop Idle and started it.
C3_Witness ==
    /\ last.op = "render" /\ last.arg = "ok" /\ last.hadWork
    /\ repaintTimer # NoTimer /\ HasCall("host", "setInterval")

\* C4: a render call made while any of the six references is absent
\* returns at once: no call on any collaborator, no field, timer, engine
\* or GL state changed, nothing thrown.
C4_RenderNoOpWhenRefAbsent ==
    [][(frames' # frames /\ AnyRefAbsent)
        => /\ calls' = <<>>
           /\ last'.arg = "guard"
           /\ UNCHANGED <<layerState, activeTimers, engines, nextEngine,
                          work, gl, lodPose>>]_vars

\* A render call arrived after onRemove had disposed an engine, and was a
\* no-op.
C4_Witness ==
    /\ last.op = "render" /\ last.arg = "guard" /\ calls = <<>>
    /\ map = NoMap
    /\ \E e \in EngineIds : engines[e].state = "disposed"

\* C5: onRemove, in one step, leaves no interval set, the engine and the
\* Draco loader it held disposed, and every reference released.
C5_OnRemoveReleasesAll ==
    [][(last'.op = "onRemove")
        => /\ repaintTimer' = NoTimer /\ activeTimers' = {}
           /\ tilesRenderer # NoEngine
                => engines'[tilesRenderer].state = "disposed"
           /\ dracoLoader # NoEngine
                => engines'[dracoLoader].draco = "disposed"
           /\ tilesRenderer' = NoEngine /\ dracoLoader' = NoEngine
           /\ ~renderer'.present /\ ~scene' /\ ~lodCamera'
           /\ ~renderCamera' /\ map' = NoMap]_vars

\* onRemove ran while the loop was Running and tile work was outstanding.
C5_Witness ==
    /\ last.op = "onRemove" /\ last.hadWork
    /\ HasCall("host", "clearInterval")
    /\ HasCall("engine", "dispose") /\ HasCall("draco", "dispose")
    /\ map = NoMap /\ repaintTimer = NoTimer

\* C6: on a detached layer neither a late engine event nor a timer
\* callback makes the layer call the map, the engine or the renderer.
C6_NoCallAfterRemove ==
    (map = NoMap /\ last.op \in {"event", "tick"})
    => \A i \in 1..Len(calls) : calls[i].t \notin {"map", "engine", "renderer"}

\* C7: render never passes a failure of the engine advance or of the draw
\* on to the host.
C7_RenderContainsFailures ==
    last.op = "render" => last.arg \in {"guard", "ok"}

\* C8: a render that runs to its end leaves the framebuffer binding it
\* found.
C8_FramebufferRestored ==
    [][(frames' # frames /\ last'.arg = "ok") => gl'.fbo = gl.fbo]_vars

\* C9: a render that runs to its end leaves depth test, depth function,
\* depth mask and the polygon-offset toggle as it found them.
C9_DepthStateRestored ==
    [][(frames' # frames /\ last'.arg = "ok")
        => /\ gl'.depthTest = gl.depthTest
           /\ gl'.depthFunc = gl.depthFunc
           /\ gl'.depthMask = gl.depthMask
           /\ gl'.polygonOffsetFill = gl.polygonOffsetFill]_vars

CameraWritten(cs) ==
    cs[CHOOSE i \in 1..Len(cs) : cs[i].t = "renderCamera"].arg

\* A point of the tile set: the anchor's ECEF position at altitude 0.
AnchorECEF == LngLatToECEF(config.lng0, config.lat0, RI(0))

\* What a frame has to show for anchor cfg under host view h: the
\* projection of that view times the anchor transform at the world size
\* of that view's zoom, and the anchor's Mercator position relative to
\* that view's centre.
CameraExpected(v, cfg, h) ==
    LET ws == RI(512 * Pow2(h.zoom))
    IN [product |-> MultiplyMatrices(ModelViewProjection(h),
                        BuildEcefToMercatorMatrix(v, cfg.lng0, cfg.lat0,
                                                  cfg.altitudeOffset, ws)),
        anchorX |-> RSub(RMul(MercatorX(cfg.lng0), ws),
                         RMul(MercatorX(h.lng), ws)),
        anchorY |-> RSub(RMul(MercatorY(cfg.lat0), ws),
                         RMul(MercatorY(h.lat), ws))]

CameraExpectedRows ==
    {[v |-> v, cfg |-> cfg, h |-> h, want |-> CameraExpected(v, cfg, h)] :
        v \in Variants, cfg \in Configs, h \in Hosts}

\* C11: every render that gets past its guard reads the zoom (and, in
\* the camera-relative iteration, the centre) of the map in that same
\* call, and writes into the render camera, before the engine advance
\* and the draw, matrices whose product is the projection passed to
\* that call times the anchor transform at the world size of that zoom;
\* the camera-relative view matrix puts the anchor at its Mercator
\* position minus the centre read in that call.
C11_CameraFromSameCall ==
    [][(frames' # frames /\ last'.arg # "guard")
        => LET cam  == CameraWritten(calls')
               want == (CHOOSE row \in CameraExpectedRows :
                          row.v = variant /\ row.cfg = config
                          /\ row.h = host).want
               at   == ApplyToPoint(cam.matrixWorldInverse, AnchorECEF)
               set  == {i \in 1..Len(calls') : calls'[i].t = "renderCamera"}
               on(t, fn) == {i \in 1..Len(calls') :
                               calls'[i].t = t /\ calls'[i].fn = fn}
           IN /\ Cardinality(set) = 1
              /\ MultiplyMatrices(cam.projectionMatrix, cam.matrixWorldInverse)
                   = want.product
              /\ variant = "split" =>
                   /\ at[1] = want.anchorX
                   /\ at[2] = want.anchorY
                   /\ on("map", "getCenter") # {}
              /\ \A s \in set :
                   /\ \E z \in on("map", "getZoom") : z < s
                   /\ \A c \in on("map", "getCenter") : c < s
                   /\ \A u \in on("engine", "update") : s < u
                   /\ \A d \in on("renderer", "render") : s < d]_vars

\* A frame ran to its end after the user had zoomed in, moved the map
\* off the anchor and pitched it.
C11_Witness ==
    /\ last.op = "render" /\ last.arg = "ok"
    /\ host.zoom = MaxZoom /\ host.lng # config.lng0
    /\ host.attitude = "pitched" /\ host.transformWorldSize = 0
    /\ host # DefaultHost
    /\ CameraWritten(calls) = RenderCamera(variant, config, host)

\* C16: while the layer holds its LOD camera, the camera stands
\* SELECTION_HEIGHT_M above the anchor, looks at the anchor and is
\* SELECTION_FOV_DEG wide, as onAdd set it; no render, tick, engine event
\* or move of the host map changes that, and every draw is made with the
\* render camera: the LOD camera only ever goes to the engine.
C16_LodCameraFixed ==
    [][/\ lodCamera' =>
            /\ lodPose'.position
                 = <<config.lng0, config.lat0, SELECTION_HEIGHT_M>>
            /\ lodPose'.target = <<config.lng0, config.lat0, 0>>
            /\ lodPose'.fov = SELECTION_FOV_DEG
       /\ (lodCamera /\ lodCamera') => lodPose' = lodPose
       /\ calls' # calls =>
            \A i \in 1..Len(calls') :
               /\ (calls'[i].t = "renderer" /\ calls'[i].fn = "render")
                    => calls'[i].arg = "scene,renderCamera"
               /\ calls'[i].t \in {"map", "gl", "renderer", "host", "draco"}
                    => calls'[i].arg # "lodCamera"
               /\ (calls'[i].t = "engine" /\ calls'[i].arg = "lodCamera")
                    => calls'[i].fn \in {"setCamera", "setResolution"}
      ]_vars

\* A frame was drawn with the map zoomed in, pitched and centred away
\* from the anchor, and the LOD camera still stands above the anchor.
C16_Witness ==
    /\ last.op = "render" /\ last.arg = "ok"
    /\ HasCall("renderer", "render")
    /\ host.zoom = MaxZoom /\ host.attitude = "pitched"
    /\ <<host.lng, host.lat>> # <<config.lng0, config.lat0>>
    /\ lodCamera /\ lodPose.position[1] = config.lng0
    /\ lodPose.position[3] = SELECTION_HEIGHT_M

\* C18: the split is lossless: the projection with the centre re-added,
\* times the transform with the centre taken off its X/Y translation,
\* is the projection times the transform, entry by entry.
C18_SplitIdentity ==
    calc.phase = "split" =>
        MultiplyMatrices(calc.adjustedProjection, calc.relativeModel)
          = MultiplyMatrices(calc.p, calc.matrix)

\* A split around a centre away from the Mercator origin, under the
\* pitched projection, of a transform with an altitude offset.
C18_Witness ==
    /\ calc.phase = "split"
    /\ calc.cx # RI(0) /\ calc.cy # RI(0)
    /\ calc.relativeModel # calc.matrix
    /\ calc.adjustedProjection # calc.p
    /\ host.attitude = "pitched"
    /\ config.altitudeOffset # RI(0)

\* C19: the built matrix takes the anchor's own ECEF position (altitude
\* 0) to (mercatorX(lng) * worldSize, mercatorY(lat) * worldSize,
\* altitude offset).
C19_AnchorInvariance ==
    calc.phase = "applied" =>
        calc.ground = <<RMul(MercatorX(config.lng0), RI(512 * Pow2(host.zoom))),
                        RMul(MercatorY(config.lat0), RI(512 * Pow2(host.zoom))),
                        config.altitudeOffset>>

\* C20: the Z row of the built matrix is the one built at world size 1,
\* whatever the world size, and the anchor raised by 100 m comes out
\* 100 higher than the anchor itself.
C20_VerticalZoomInvariance ==
    /\ calc.phase = "built" =>
          calc.matrix[3]
            = BuildEcefToMercatorMatrix(variant, config.lng0, config.lat0,
                                        config.altitudeOffset, RI(1))[3]
    /\ calc.phase = "applied" =>
          RSub(calc.raised[3], calc.ground[3]) = Metres(100)

\* The handler that ran last was the dispatch of a load-model event.
LoadModelHandled == last.op = "event" /\ last.arg = "load-model"

\* The objects whose material processLoadedScene replaces: the meshes
\* that have a material and, in the offset copy, a geometry.
MaterialReplaced(obj) ==
    /\ obj.isMesh
    /\ obj.material # "none"
    /\ variant = "split" \/ obj.geometry # "none"

\* C12: on every load-model event the cross-fade plugin's listener runs,
\* and runs after the post-processing listener: a scene that can be
\* traversed has been post-processed by then, and the plugin wraps the
\* unlit replacement on every object whose material the post-processor
\* replaces, and on every other object the material the tile came with.
C12_PostProcessBeforeFade ==
    LoadModelHandled =>
        /\ Cardinality(CallsAt("fade", "load-model")) = 1
        /\ \A f \in CallsAt("fade", "load-model") :
              /\ last.ev.scene.kind = "traversable" =>
                    \E q \in CallsAt("scene", "processLoadedScene") : q < f
              /\ \A q \in CallsAt("console", "warn") : q < f
              /\ Len(calls[f].arg) = Len(last.ev.scene.objects)
              /\ \A i \in 1..Len(last.ev.scene.objects) :
                    LET obj == last.ev.scene.objects[i]
                    IN calls[f].arg[i] = IF MaterialReplaced(obj)
                                         THEN "unlit" ELSE obj.material

\* C12 as stated: on every load-model event the plugin's listener runs
\* after the post-processing listener and never wraps a tile's original
\* material.  It wraps the original material of points and lines and,
\* in the offset copy, of a mesh without geometry.
C12_FadeNeverWrapsOriginal ==
    LoadModelHandled =>
        /\ Cardinality(CallsAt("fade", "load-model")) = 1
        /\ \A f \in CallsAt("fade", "load-model") :
              /\ last.ev.scene.kind = "traversable" =>
                    \E q \in CallsAt("scene", "processLoadedScene") : q < f
              /\ \A i \in 1..Len(calls[f].arg) :
                    calls[f].arg[i] # "original"

\* A tile with a textured mesh was loaded and the plugin wrapped the
\* mesh's unlit material.
C12_Witness ==
    /\ LoadModelHandled
    /\ last.ev.scene.kind = "traversable"
    /\ \E f \in CallsAt("fade", "load-model") :
          \E i \in 1..Len(calls[f].arg) :
             /\ calls[f].arg[i] = "unlit"
             /\ last.ev.scene.objects[i].material = "original"

\* C13: a handler post-processes a scene only when it is the dispatch
\* of a load-model event carrying a traversable scene; it then runs
\* processLoadedScene once, on that scene, and the run visits each
\* object of the scene once.  Renders, ticks and other events run it
\* not at all.
C13_PostProcessOncePerLoad ==
    LET runs == CallsAt("scene", "processLoadedScene")
    IN IF LoadModelHandled /\ last.ev.scene.kind = "traversable"
       THEN /\ Cardinality(runs) = 1
            /\ \A q \in runs :
                  /\ Len(calls[q].arg) = Len(last.ev.scene.objects)
                  /\ \A i \in 1..Len(calls[q].arg) :
                        /\ calls[q].arg[i].visits = 1
                        /\ calls[q].arg[i].isMesh
                             = last.ev.scene.objects[i].isMesh
       ELSE runs = {}

\* A two-object scene was loaded and post-processed.
C13_Witness ==
    /\ LoadModelHandled
    /\ Len(last.ev.scene.objects) = MaxObjects
    /\ \E q \in CallsAt("scene", "processLoadedScene") :
          calls[q].arg[MaxObjects].material = "unlit"

\* The dispatch of a load-model event that carries no scene, or one
\* that cannot be traversed.
SceneLessLoad ==
    /\ last'.op = "event" /\ last'.arg = "load-model"
    /\ last'.ev \in SceneLessEvents
    /\ \E e \in EngineIds : EngineEvent(e, "load-model", last'.ev)

\* C14: a load-model event without a traversable scene is skipped with
\* a warning: nothing is post-processed, the listeners behind the
\* post-processing one still run (kick repaints as for any load-model),
\* and no reference, engine or GL state of the layer changes.
C14_SceneLessLoadSkipped ==
    [][SceneLessLoad =>
        /\ \A i \in 1..Len(calls') : calls'[i].t # "scene"
        /\ \E i \in 1..Len(calls') :
              /\ calls'[i].t = "console" /\ calls'[i].fn = "warn"
              /\ \E k \in (i + 1)..Len(calls') :
                    calls'[k].t = "map" /\ calls'[k].fn = "triggerRepaint"
        /\ map # NoMap => repaintTimer' # NoTimer
        /\ UNCHANGED <<layerRefs, engines, nextEngine, work, gl, frames,
                       lodPose>>]_vars

\* An attached layer got a load-model event without scene and warned.
C14_Witness ==
    /\ LoadModelHandled
    /\ last.ev.scene.kind = "none"
    /\ HasCall("console", "warn")
    /\ map # NoMap /\ tilesRenderer # NoEngine

\* The dispatch of a load-error event.
LoadErrorStep ==
    /\ last'.op = "event" /\ last'.arg = "load-error"
    /\ last'.ev \in LoadErrorEvents
    /\ \E e \in EngineIds : EngineEvent(e, "load-error", last'.ev)

\* C15: a load-error event, whatever url and error it carries or lacks,
\* makes the layer write one warning and nothing else: no call on the
\* engine, the map or any other collaborator, and the repaint loop, the
\* references, the engines and the GL state stay as they were.
C15_LoadErrorLogsOnly ==
    [][LoadErrorStep =>
        /\ Len(calls') = 1
        /\ calls'[1].t = "console" /\ calls'[1].fn = "warn"
        /\ UNCHANGED <<layerRefs, repaintTimer, activeTimers, engines,
                       nextEngine, work, gl, frames, lodPose>>]_vars

\* A load-error without url and with an error that is no Error object
\* was logged while the repaint loop was Running.
C15_Witness ==
    /\ last.op = "event" /\ last.arg = "load-error"
    /\ last.ev.url = "absent" /\ last.ev.tileUri = "absent"
    /\ last.ev.error = "object"
    /\ calls[1].arg = <<"tile load failure", "(unknown)", "[object Object]">>
    /\ repaintTimer # NoTimer

\* The errors the formula gives sit on the side of the threshold the
\* tile's geometric error puts them: above it for a positive geometric
\* error, at it for 0; and the selection has stopped at tiles of
\* geometric error 0 only.
SseSaturated ==
    /\ \A t \in Tiles :
          /\ calc.ge[t] > 0 <=> RGt(TileError(calc, t), RI(errorTarget))
          /\ calc.ge[t] = 0 <=> TileError(calc, t) = RI(errorTarget)
    /\ \A t \in calc.stopped : calc.ge[t] = 0

\* A selection under the conditions the layer sets up: the threshold is
\* errorTarget, the canvas has a height, and the whole tile set is
\* inside the LOD camera's frustum.
LodCameraSetUp ==
    /\ calc.phase = "lod"
    /\ calc.errorTarget = errorTarget
    /\ calc.height > 0
    /\ calc.outside = {}

\* The traversal goes on below tile t.
Refined(t) == calc.ge[t] > 0 \/ t \in calc.unconditional

\* C17: with threshold 0, the LOD camera SELECTION_HEIGHT_M away and a
\* positive inflated resolution, the error of a tile exceeds the
\* threshold exactly when its geometric error is positive; the
\* selection stops only at tiles of geometric error 0 (those of them
\* that cannot be refined unconditionally), and when it ends it has
\* reached exactly the tiles whose ancestors were all refined: every
\* leaf, when every tile that has children is refined.
C17_SseSaturation ==
    LodCameraSetUp =>
        /\ SseSaturated
        /\ \A t \in calc.stopped : ~Refined(t)
        /\ calc.pending = {} =>
              /\ \A t \in Tiles :
                    t \in calc.visited
                       <=> \A a \in Ancestors(t) : Refined(a)
              /\ (\A t \in Tiles \ Leaves : Refined(t))
                    => Leaves \subseteq calc.visited

\* A selection ran to its end over a hierarchy whose inner tiles all
\* have a positive geometric error: it stopped at a leaf and has seen
\* every tile.
C17_Witness ==
    /\ LodCameraSetUp /\ calc.pending = {}
    /\ \A t \in Tiles \ Leaves : calc.ge[t] > 0
    /\ calc.stopped # {} /\ calc.stopped \subseteq Leaves
    /\ calc.visited = Tiles

\* C17 as stated: ... and the selection reaches every leaf of the
\* hierarchy.
C17_ReachesEveryLeaf ==
    LodCameraSetUp =>
        /\ SseSaturated
        /\ calc.pending = {} => Leaves \subseteq calc.visited

\* C23: once the post-processing listener has handled a load-model
\* event with a traversable scene, frustum culling is off on every
\* object of the scene: meshes and other nodes, with or without
\* geometry or material.
C23_FrustumCullingDisabled ==
    (LoadModelHandled /\ last.ev.scene.kind = "traversable") =>
        \A q \in CallsAt("scene", "processLoadedScene") :
           /\ Len(calls[q].arg) = Len(last.ev.scene.objects)
           /\ \A i \in 1..Len(calls[q].arg) : ~calls[q].arg[i].frustumCulled

\* C27: a timer callback on an attached layer that finds work
\* outstanding calls the map's repaint trigger and leaves the loop
\* Running; the loop leaves Running only in onRemove, in a callback that
\* finds the map gone, or in a callback that finds no work outstanding,
\* which calls the repaint trigger once and then clears the interval.
C27_RepaintWhileWorkOutstanding ==
    /\ [][(last'.op = "tick" /\ last'.arg = "attached" /\ last'.hadWork)
            => /\ calls' = <<Call("map", map, "triggerRepaint", "")>>
               /\ repaintTimer' # NoTimer
               /\ UNCHANGED <<repaintTimer, activeTimers>>]_vars
    /\ [][(repaintTimer # NoTimer /\ repaintTimer' = NoTimer)
            => \/ last'.op = "onRemove"
               \/ last'.op = "tick" /\ last'.arg = "detached"
               \/ /\ last'.op = "tick" /\ last'.arg = "attached"
                  /\ ~last'.hadWork
                  /\ calls' = <<Call("map", map, "triggerRepaint", ""),
                                Call("host", repaintTimer, "clearInterval", "tick")>>]_vars

\* A callback found work outstanding, repainted and left the loop
\* Running.
C27_Witness ==
    /\ last.op = "tick" /\ last.arg = "attached" /\ last.hadWork
    /\ HasCall("map", "triggerRepaint")
    /\ repaintTimer # NoTimer /\ ~Quiet(work)

\* C28: every render call that gets past its guard leaves, as the
\* resolution the engine holds for the LOD camera, four times the width
\* and height the canvas has at that call, and registers it before the
\* engine advance of that frame: a resize is picked up by the next
\* frame.
C28_ResolutionTracksCanvas ==
    [][(frames' # frames /\ last'.arg # "guard")
        => /\ engines'[tilesRenderer].resolution
                = <<4 * canvas.width, 4 * canvas.height>>
           /\ Cardinality(CallsAt("engine", "setResolution")') = 1
           /\ \A i \in CallsAt("engine", "setResolution")' :
                 /\ calls'[i].id = tilesRenderer
                 /\ \A j \in CallsAt("engine", "update")' : i < j]_vars

\* A frame was drawn after the window had been resized: the engine
\* holds four times the new size, not the size of the attach.
C28_Witness ==
    /\ last.op = "render" /\ last.arg = "ok"
    /\ canvas = [width |-> 1920, height |-> 1080]
    /\ tilesRenderer # NoEngine
    /\ engines[tilesRenderer].resolution = <<7680, 4320>>
    /\ \E i \in CallsAt("engine", "setResolution") :
          \E j \in CallsAt("engine", "update") : i < j

\* C29: whenever the repaint loop is Running the layer is attached; and
\* from a detached layer no handler but onAdd (an engine event, a timer
\* callback, a render call, another onRemove) sets an interval or
\* leaves the loop Running.
C29_RunningImpliesAttached ==
    /\ [](repaintTimer # NoTimer => map # NoMap)
    /\ [][(map = NoMap /\ last'.op # "onAdd")
            => /\ repaintTimer' = NoTimer
               /\ activeTimers' = {}
               /\ ~HasCall("host", "setInterval")']_vars

\* A work signal of a disposed engine reached the detached layer and
\* the loop stayed Idle.
C29_Witness ==
    /\ last.op = "event" /\ last.arg \in KickTypes
    /\ map = NoMap /\ repaintTimer = NoTimer /\ activeTimers = {}
    /\ \E e \in EngineIds : engines[e].state = "disposed"

\* C30: whatever the sequence of onAdd and onRemove calls, no engine is
\* left live on a detached layer and no engine is disposed twice; an
\* onRemove on a detached layer makes no call and changes nothing; and
\* an onAdd that runs to its end leaves every reference set and the
\* loop Running.
C30_EnginesDisposedOnce ==
    /\ [](map = NoMap => \A e \in EngineIds : engines[e].state # "live")
    /\ [][\A i \in CallsAt("engine", "dispose")' :
             /\ engines[calls'[i].id].state = "live"
             /\ engines'[calls'[i].id].state = "disposed"]_vars
    /\ [][(last'.op = "onRemove" /\ map = NoMap)
            => /\ calls' = <<>>
               /\ UNCHANGED <<layerState, activeTimers, engines, nextEngine,
                              work, gl, lodPose>>]_vars
    /\ [][(last'.op = "onAdd" /\ last'.arg = "ok")
            => /\ RenderGuard' /\ dracoLoader' # NoEngine
               /\ engines'[tilesRenderer'].state = "live"
               /\ repaintTimer' # NoTimer]_vars

\* C21: the matrix the layer's buildEcefToMercatorMatrix builds equals,
\* entry by entry, the one the builder of the transform test builds and
\* the one buildEcefToMercatorDiag builds from the same anchor, altitude
\* offset and world size.
C21_BuildersAgree ==
    calc.phase = "built" =>
        /\ calc.matrix
             = TestBuildEcefToMercatorMatrix(config.lng0, config.lat0,
                   config.altitudeOffset, WorldSize(host))
        /\ calc.matrix
             = BuildEcefToMercatorDiag(config.lng0, config.lat0,
                   config.altitudeOffset, WorldSize(host))

\* C25: collectAllB3dmUrls terminates whatever the tileset documents
\* refer to (cycles and self-references included), no tileset JSON URL
\* is fetched more than once, and a tileset JSON whose fetch fails adds
\* no URL and does not abort the collection: the failing call returns
\* to its caller, and the collection ends with the kept tiles of every
\* document that was obtained, every sub-tileset those documents refer
\* to having been visited.
C25_CollectionDone ==
    calc.phase # "idle" /\ calc.phase # "collect"

C25_TilesOfObtained ==
    {Href(u) : u \in UNION {{WalkB3dm(TileUris(d))[k] :
                                k \in 1..Len(WalkB3dm(TileUris(d)))} :
                            d \in calc.obtained}}

C25_CollectTerminatesFetchingOnce ==
    /\ [](\A d \in JsonIds : calc.jsonFetches[d] <= 1)
    /\ [](calc.phase = "collected" =>
            /\ {Href(calc.rawUrls[k]) : k \in 1..Len(calc.rawUrls)}
                 = C25_TilesOfObtained
            /\ \A d \in calc.referenced :
                 Uri("json", d, "plain") \in calc.visited)
    /\ [][calc.phase = "collect" /\ calc'.unfetched # calc.unfetched =>
            /\ calc'.phase \in {"collect", "collected"}
            /\ calc'.thrown = "none"
            /\ calc'.obtained = calc.obtained]_vars
    /\ <>C25_CollectionDone

\* A collection that ended after a document referred back to the root
\* tileset and the fetch of a sub-tileset failed, with tiles collected.
C25_Witness ==
    /\ calc.phase = "collected"
    /\ 1 \in calc.referenced
    /\ calc.unfetched # {}
    /\ calc.rawUrls # <<>>

\* C24: preloadAllTiles calls onProgress exactly once for every distinct
\* tile URL, at the moment that URL's fetch is over, however it ended;
\* the k-th call reports loaded = k with the full total, the promise
\* resolves only after the call that reports
\* loaded = total, and a run with no tile URL or with a failed collection
\* makes the single call (0, 0, 100).
C24_Reported(t) ==
    Cardinality({k \in 1..Len(calc.progress) : calc.progress[k].tile = t})

C24_ProgressOncePerTile ==
    /\ [](calc.phase \in {"idle", "collect", "collected"} =>
            calc.progress = <<>>)
    /\ [](calc.phase = "preload" \/
          (calc.phase = "resolved" /\ calc.allUrls # <<>>) =>
            /\ \A k \in 1..Len(calc.progress) :
                 /\ calc.progress[k].loaded = k
                 /\ calc.progress[k].total = Len(calc.allUrls)
            /\ \A t \in TileIds :
                 C24_Reported(t) = IF calc.flight[t] = "settled" THEN 1 ELSE 0)
    /\ [](calc.phase = "resolved" /\ calc.allUrls # <<>> =>
            /\ Len(calc.progress) = Len(calc.allUrls)
            /\ calc.progress[Len(calc.progress)].loaded = Len(calc.allUrls)
            /\ \A k \in 1..Len(calc.allUrls) :
                 C24_Reported(calc.allUrls[k].id) = 1)
    /\ [](calc.phase = "resolved" /\ calc.allUrls = <<>> =>
            calc.progress = <<[loaded |-> 0, total |-> 0,
                               percentage |-> 100, tile |-> 0]>>)
    /\ [][\A t \in TileIds :
            calc.flight[t] # "settled" /\ calc'.flight[t] = "settled" =>
              /\ Len(calc'.progress) = Len(calc.progress) + 1
              /\ calc'.progress[Len(calc'.progress)].tile = t]_vars

\* A finished run over at least two tiles of which one was cached and
\* one failed.
C24_Witness ==
    /\ calc.phase = "resolved"
    /\ Len(calc.allUrls) >= 2
    /\ calc.cache # {}
    /\ \E k \in 1..Len(calc.allUrls) : calc.allUrls[k].id \notin calc.cache
    /\ Len(calc.progress) = Len(calc.allUrls)

\* C26: during preloadAllTiles never more than `concurrency` tile
\* fetches are in flight; a fetch starts only when no fetch is in flight
\* and every URL before it in allUrls has settled; and failed fetches
\* stop nothing: the run resolves, and by then every URL of allUrls has
\* been fetched exactly once.
C26_Started ==
    {t \in TileIds : calc.flight[t] = "none" /\ calc'.flight[t] = "fetching"}

C26_BatchesBoundConcurrency ==
    /\ [](Cardinality(InFlight(calc)) <= calc.concurrency)
    /\ [][C26_Started # {} =>
            /\ InFlight(calc) = {}
            /\ Cardinality(C26_Started) <= calc.concurrency
            /\ \A k \in 1..Len(calc'.allUrls) :
                 calc'.allUrls[k].id \in C26_Started =>
                   \A j \in 1..(k - 1) :
                     calc'.flight[calc'.allUrls[j].id] \in
                       {"settled", "fetching"}
            /\ \A t \in TileIds \ C26_Started :
                 calc'.flight[t] \in {"settled", "none"}]_vars
    /\ [](calc.phase = "resolved" =>
            \A k \in 1..Len(calc.allUrls) :
              /\ calc.tileFetches[calc.allUrls[k].id] = 1
              /\ calc.flight[calc.allUrls[k].id] = "settled")
    /\ <>(calc.phase = "resolved")

\* A later batch in flight under a concurrency of two or more, after a
\* fetch of an earlier batch failed.
C26_Witness ==
    /\ calc.phase = "preload"
    /\ calc.concurrency >= 2
    /\ calc.i > 0
    /\ InFlight(calc) # {}
    /\ \E t \in TileIds : calc.flight[t] = "settled" /\ t \notin calc.cache

====
